---- MODULE Spec2Model ----
(***************************************************************************)
(* A model of the acquisition-metadata decoding and timing-reconstruction  *)
(* code of silverlabnwb: the LabView header parser and header classes      *)
(* (header.py), the reset-based trial detection of NwbFile (nwb_file.py)   *)
(* and the pixel-timing reconstructors (timings.py).                       *)
(*                                                                         *)
(* Text is modelled as a sequence of tokens.  A token is either one of the *)
(* characters the parser looks at ("[", "]", "=", tab, space, double       *)
(* quote) or a run of other characters ("LOGIN", "2.3.1", "7").  Times are *)
(* integers counted in microseconds.                                       *)
(***************************************************************************)
EXTENDS Integers, Sequences, FiniteSets, TLC

VARIABLES
    file,        \* header spec: the lines of the header file given to from_file
    hdr,         \* header spec: outcome of LabViewHeader.from_file
    call,        \* header spec: outcome of the last call made on the header object
    speed,       \* epoch spec: the 'trial_times' acquisition (timestamps and counter)
    epochs,      \* epoch spec: state of NwbFile.determine_trial_times
    tin,         \* timing spec: inputs of a LabViewTimings constructor
    tout,        \* timing spec: outcome of the constructor
    rois,        \* ROI spec: the mapping objects, the readers and the last outcome
    nwb,         \* file spec: the files on disk and the NwbFile object
    sess         \* session spec: two from_file calls in progress and their objects

vars == <<file, hdr, call, speed, epochs, tin, tout, rois, nwb, sess>>

(***************************************************************************)
(* Bounds of the model.                                                    *)
(***************************************************************************)
MaxRows == 3      \* rows in the trial-times section of a header
MaxExtra == 1     \* additional lines inserted into a header file

(***************************************************************************)
(* Text helpers: str.strip, str.split, the 'in' test and float().          *)
(***************************************************************************)
Whitespace == {" ", "\t"}

Numerals == <<"0", "1", "2", "3", "4", "5", "6", "7">>

NumStr(n) == Numerals[n + 1]

IsNumeral(tok) == \E i \in 1..Len(Numerals) : Numerals[i] = tok

NumVal(tok) == (CHOOSE i \in 1..Len(Numerals) : Numerals[i] = tok) - 1

RECURSIVE lstrip(_)
lstrip(s) == IF Len(s) > 0 /\ Head(s) \in Whitespace THEN lstrip(Tail(s)) ELSE s

RECURSIVE rstrip(_)
rstrip(s) ==
    IF Len(s) > 0 /\ s[Len(s)] \in Whitespace
    THEN rstrip(SubSeq(s, 1, Len(s) - 1))
    ELSE s

strip(s) == rstrip(lstrip(s))

Contains(s, c) == \E i \in 1..Len(s) : s[i] = c

FirstIndex(s, c) == CHOOSE i \in 1..Len(s) : s[i] = c /\ \A j \in 1..(i - 1) : s[j] # c

RECURSIVE split(_, _)
split(s, c) ==
    IF ~Contains(s, c)
    THEN <<s>>
    ELSE <<SubSeq(s, 1, FirstIndex(s, c) - 1)>>
             \o split(SubSeq(s, FirstIndex(s, c) + 1, Len(s)), c)

\* float(text) succeeds: the text, surrounding whitespace apart, is one number
IsFloat(text) == Len(strip(text)) = 1 /\ IsNumeral(strip(text)[1])

FloatOf(text) == NumVal(strip(text)[1])

(***************************************************************************)
(* Values of the parsed sections: a float or a string.                     *)
(***************************************************************************)
FloatValue(n) == [t |-> "float", n |-> n, s |-> <<>>]

StrValue(s) == [t |-> "str", n |-> 0, s |-> s]

EmptyDict == <<>>

Put(d, k, v) == (k :> v) @@ d

Has(d, k) == k \in DOMAIN d

(***************************************************************************)
(* LabViewHeader.from_file, the line loop (header.py:28-56).  The state of *)
(* the loop is a record: the raw triples, the parsed sections, the current *)
(* section, line_number (-1 while the name is unbound), the number of      *)
(* warnings emitted and the exception that ended the loop ("" for none).   *)
(***************************************************************************)
Unbound == 0 - 1

ParseStart ==
    [fields |-> <<>>, sections |-> EmptyDict, section |-> <<>>,
     line_number |-> Unbound, warnings |-> 0, err |-> ""]

\* the entries of a section opened before are kept
OpenSectionKept(st, line) ==
    [st EXCEPT !.section = SubSeq(line, 2, Len(line) - 1),
               !.sections = IF Has(st.sections, SubSeq(line, 2, Len(line) - 1))
                            THEN st.sections
                            ELSE Put(st.sections, SubSeq(line, 2, Len(line) - 1), EmptyDict),
               !.line_number = 0]

\* header.py:35-38
OpenSection(st, line) ==
    [st EXCEPT !.section = SubSeq(line, 2, Len(line) - 1),
               !.sections = Put(st.sections, SubSeq(line, 2, Len(line) - 1), EmptyDict),
               !.line_number = 0]

\* header.py:43-48: float() if possible, otherwise the string without one
\* pair of surrounding double quotes; only called on a non-empty string
\* or on a float
ConvertValue(value) ==
    IF IsFloat(value)
    THEN FloatValue(FloatOf(value))
    ELSE IF value[1] = "\"" /\ value[Len(value)] = "\""
         THEN StrValue(SubSeq(value, 2, Len(value) - 1))
         ELSE StrValue(value)

\* header.py:39-49
KeyValueLine(st, line) ==
    LET words == split(line, "=")
        key == strip(words[1])
        value == strip(words[2])
        appended == [st EXCEPT !.fields = Append(st.fields, <<st.section, key, value>>)]
    IN  IF ~IsFloat(value) /\ Len(value) = 0
        THEN [appended EXCEPT !.err = "IndexError"]
        ELSE IF ~Has(st.sections, st.section)
        THEN [appended EXCEPT !.err = "KeyError"]
        ELSE [appended EXCEPT
                 !.sections = Put(st.sections, st.section,
                                  Put(st.sections[st.section], key, ConvertValue(value)))]

\* header.py:50-54
TabLine(st, line) ==
    IF st.line_number = Unbound
    THEN [st EXCEPT !.err = "UnboundLocalError"]
    ELSE [st EXCEPT
             !.line_number = st.line_number + 1,
             !.fields = Append(st.fields,
                               <<st.section, <<"line_", NumStr(st.line_number + 1)>>, line>>)]

\* the unrecognised line ends the loop instead of being skipped
UnrecognisedLineAborts(st, line) ==
    [st EXCEPT !.warnings = st.warnings + 1, !.err = "ValueError"]

\* header.py:55-56
UnrecognisedLine(st, line) == [st EXCEPT !.warnings = st.warnings + 1]

\* header.py:33-56, one iteration of the loop
ParseLine(st, raw) ==
    LET line == strip(raw)
    IN  IF st.err # "" THEN st
        ELSE IF Len(line) = 0 THEN st
        ELSE IF line[1] = "[" THEN OpenSection(st, line)
        ELSE IF Contains(line, "=") THEN KeyValueLine(st, line)
        ELSE IF Contains(line, "\t") THEN TabLine(st, line)
        ELSE UnrecognisedLine(st, line)

RECURSIVE ParseFrom(_, _)
ParseFrom(st, lines) ==
    IF Len(lines) = 0 THEN st ELSE ParseFrom(ParseLine(st, Head(lines)), Tail(lines))

\* header.py:28-56
ParseFile(lines) == ParseFrom(ParseStart, lines)

(***************************************************************************)
(* The header classes (header.py:69-255).  A header object is a record;    *)
(* the trial-times section of a 2.3.1 header holds integer keys beside the *)
(* text keys, they are kept in the field trial_times.                      *)
(***************************************************************************)
Section(name) == <<name>>

Key(name) == <<name>>

trial_times_section == Section("Intertrial FIFO Times")

Lookup(sections, sec, key) ==
    IF Has(sections, sec) /\ Has(sections[sec], key)
    THEN [err |-> "", value |-> sections[sec][key]]
    ELSE [err |-> "KeyError", value |-> StrValue(<<>>)]

IsTrue(v) == v.t = "str" /\ v.s = <<"TRUE">>

ModeResult(err, mode) == [err |-> err, mode |-> mode]

\* the counters consulted in the other order
DetermineImagingModeMiniscansFirst(sections) ==
    LET poi == Lookup(sections, Section("GLOBAL PARAMETERS"), Key("number of poi"))
        mini == Lookup(sections, Section("GLOBAL PARAMETERS"), Key("number of miniscans"))
    IN  IF poi.err # "" THEN ModeResult("KeyError", "none")
        ELSE IF poi.value.t # "float" THEN ModeResult("TypeError", "none")
        ELSE IF mini.err = "" /\ mini.value.t = "float" /\ mini.value.n > 0
        THEN ModeResult("", "miniscan")
        ELSE IF poi.value.n > 0 THEN ModeResult("", "pointing")
        ELSE IF mini.err # "" THEN ModeResult("KeyError", "none")
        ELSE IF mini.value.t # "float" THEN ModeResult("TypeError", "none")
        ELSE ModeResult("ValueError: numbers of poi and miniscans are zero", "none")

\* LabViewHeaderPre2018._determine_imaging_mode, header.py:160-166
DetermineImagingModePre2018(sections) ==
    LET poi == Lookup(sections, Section("GLOBAL PARAMETERS"), Key("number of poi"))
        mini == Lookup(sections, Section("GLOBAL PARAMETERS"), Key("number of miniscans"))
    IN  IF poi.err # "" THEN ModeResult("KeyError", "none")
        ELSE IF poi.value.t # "float" THEN ModeResult("TypeError", "none")
        ELSE IF poi.value.n > 0 THEN ModeResult("", "pointing")
        ELSE IF mini.err # "" THEN ModeResult("KeyError", "none")
        ELSE IF mini.value.t # "float" THEN ModeResult("TypeError", "none")
        ELSE IF mini.value.n > 0 THEN ModeResult("", "miniscan")
        ELSE ModeResult("ValueError: numbers of poi and miniscans are zero", "none")

\* without the test that both flags are true
DetermineImagingMode231Unchecked(sections) ==
    LET volume == Lookup(sections, Section("IMAGING MODES"), Key("Volume Imaging"))
        functional == Lookup(sections, Section("IMAGING MODES"), Key("Functional Imaging"))
        mode_name == Lookup(sections, Section("FUNCTIONAL IMAGING"), Key("Functional Mode"))
    IN  IF volume.err # "" \/ functional.err # "" THEN ModeResult("KeyError", "none")
        ELSE IF IsTrue(volume.value) THEN ModeResult("", "volume")
        ELSE IF IsTrue(functional.value)
        THEN IF mode_name.err # "" THEN ModeResult("KeyError", "none")
             ELSE IF mode_name.value = StrValue(<<"Point">>) THEN ModeResult("", "pointing")
             ELSE IF mode_name.value = StrValue(<<"Patch">>) THEN ModeResult("", "miniscan")
             ELSE ModeResult("ValueError: unrecognised imaging mode", "none")
        ELSE ModeResult("ValueError: one must be true", "none")

\* LabViewHeader231._determine_imaging_mode, header.py:197-216
DetermineImagingMode231(sections) ==
    LET volume == Lookup(sections, Section("IMAGING MODES"), Key("Volume Imaging"))
        functional == Lookup(sections, Section("IMAGING MODES"), Key("Functional Imaging"))
        mode_name == Lookup(sections, Section("FUNCTIONAL IMAGING"), Key("Functional Mode"))
    IN  IF volume.err # "" \/ functional.err # "" THEN ModeResult("KeyError", "none")
        ELSE IF IsTrue(volume.value) /\ IsTrue(functional.value)
        THEN ModeResult("ValueError: only one can be true", "none")
        ELSE IF IsTrue(volume.value) THEN ModeResult("", "volume")
        ELSE IF IsTrue(functional.value)
        THEN IF mode_name.err # "" THEN ModeResult("KeyError", "none")
             ELSE IF mode_name.value = StrValue(<<"Point">>) THEN ModeResult("", "pointing")
             ELSE IF mode_name.value = StrValue(<<"Patch">>) THEN ModeResult("", "miniscan")
             ELSE ModeResult("ValueError: unrecognised imaging mode", "none")
        ELSE ModeResult("ValueError: one must be true", "none")

\* LabViewHeader231._parse_trial_times, header.py:233-239: one iteration
ParseTrialTime(acc, field) ==
    LET words == split(field[3], "\t")
    IN  IF acc.err # "" THEN acc
        ELSE IF Len(words) # 2 THEN [acc EXCEPT !.err = "AssertionError"]
        ELSE IF ~IsFloat(words[1]) \/ ~IsFloat(words[2]) THEN [acc EXCEPT !.err = "ValueError"]
        ELSE [acc EXCEPT !.times = Put(acc.times, FloatOf(words[1]), FloatOf(words[2]))]

RECURSIVE ParseTrialTimesFrom(_, _)
ParseTrialTimesFrom(acc, time_fields) ==
    IF Len(time_fields) = 0 THEN acc
    ELSE ParseTrialTimesFrom(ParseTrialTime(acc, Head(time_fields)), Tail(time_fields))

IsTimeField(field) == field[1] = trial_times_section

\* LabViewHeader231._parse_trial_times, header.py:226-239
ParseTrialTimes(raw_fields) ==
    LET time_fields == SelectSeq(raw_fields, IsTimeField)
    IN  IF Len(time_fields) = 0
        THEN [err |-> "AssertionError", times |-> EmptyDict]
        ELSE ParseTrialTimesFrom([err |-> "", times |-> EmptyDict], time_fields)

NoHeader(err, class, warnings) ==
    [status |-> "error", err |-> err, class |-> class, version |-> "none",
     imaging_mode |-> "none", raw_fields |-> <<>>, sections |-> EmptyDict,
     trial_times |-> EmptyDict, warnings |-> warnings]

Header(version, mode, fields, sections, times, warnings) ==
    [status |-> "ok", err |-> "", class |-> version, version |-> version,
     imaging_mode |-> mode, raw_fields |-> fields, sections |-> sections,
     trial_times |-> times, warnings |-> warnings]

\* LabViewHeaderPre2018(fields, parsed_fields), header.py:69-80, 156-158
NewHeaderPre2018(fields, sections, warnings) ==
    LET mode == DetermineImagingModePre2018(sections)
    IN  IF mode.err # ""
        THEN NoHeader(mode.err, "pre2018", warnings)
        ELSE Header("pre2018", mode.mode, fields, sections, EmptyDict, warnings)

\* LabViewHeader231(fields, parsed_fields), header.py:189-195
NewHeader231(fields, sections, warnings) ==
    LET mode == DetermineImagingMode231(sections)
        times == ParseTrialTimes(fields)
    IN  IF mode.err # "" THEN NoHeader(mode.err, "v231", warnings)
        ELSE IF times.err # "" THEN NoHeader(times.err, "v231", warnings)
        ELSE Header("v231", mode.mode, fields, sections, times.times, warnings)

\* header.py:58-67: the class from_file instantiates
SelectVersion(sections) ==
    LET version == Lookup(sections, Section("LOGIN"), Key("Software Version"))
    IN  IF version.err # "" THEN "pre2018"
        ELSE IF version.value = StrValue(<<"2.3.1">>) THEN "v231"
        ELSE "unsupported"

\* header.py:57-67: the header object made of what the line loop left
NewHeader(p) ==
    LET class == SelectVersion(p.sections)
    IN  IF p.err # "" THEN NoHeader(p.err, "none", p.warnings)
        ELSE IF class = "pre2018" THEN NewHeaderPre2018(p.fields, p.sections, p.warnings)
        ELSE IF class = "v231" THEN NewHeader231(p.fields, p.sections, p.warnings)
        ELSE NoHeader("ValueError: unsupported version", "none", p.warnings)

\* LabViewHeader.from_file, header.py:24-67
from_file(lines) == NewHeader(ParseFile(lines))

(***************************************************************************)
(* determine_trial_times of the two header classes.  An interval is a      *)
(* record; resolved is FALSE where the code stores None for the end.       *)
(***************************************************************************)
Interval(start, end) == [start |-> start, end |-> end, resolved |-> TRUE]

OpenInterval(start) == [start |-> start, end |-> 0, resolved |-> FALSE]

CallResult(op, err, value) == [op |-> op, err |-> err, value |-> value]

\* the failure of an unsupported schema instead of 'not implemented'
determine_trial_times_unsupported(h) ==
    CallResult("determine_trial_times", "ValueError: unsupported version", <<>>)

\* LabViewHeader.determine_trial_times, header.py:126-132
determine_trial_times_base(h) ==
    CallResult("determine_trial_times", "NotImplementedError", <<>>)

\* len(parsed_times), header.py:244
NumberOfTimes(h) ==
    Cardinality(DOMAIN h.sections[trial_times_section]) + Cardinality(DOMAIN h.trial_times)

\* header.py:248-254, the loop from trial i on
RECURSIVE TrialTimesFrom(_, _, _, _)
TrialTimesFrom(h, i, number_of_trials, last_time_present) ==
    IF i >= number_of_trials THEN [err |-> "", value |-> <<>>]
    ELSE IF ~Has(h.trial_times, 2 * i) THEN [err |-> "KeyError", value |-> <<>>]
    ELSE IF i < number_of_trials - 1 \/ last_time_present
    THEN IF ~Has(h.trial_times, 2 * i + 1) THEN [err |-> "KeyError", value |-> <<>>]
         ELSE LET rest == TrialTimesFrom(h, i + 1, number_of_trials, last_time_present)
              IN  [err |-> rest.err,
                   value |-> <<Interval(h.trial_times[2 * i], h.trial_times[2 * i + 1])>>
                                 \o rest.value]
    ELSE LET rest == TrialTimesFrom(h, i + 1, number_of_trials, last_time_present)
         IN  [err |-> rest.err,
              value |-> <<OpenInterval(h.trial_times[2 * i])>> \o rest.value]

\* floor instead of ceil
NumberOfTrialsFloor(n) == n \div 2

\* ceil(len(parsed_times) / 2), header.py:244
NumberOfTrials(n) == (n + 1) \div 2

\* LabViewHeader231.determine_trial_times, header.py:241-255
determine_trial_times_231(h) ==
    LET n == NumberOfTimes(h)
        r == TrialTimesFrom(h, 0, NumberOfTrials(n), n = 2 * NumberOfTrials(n))
    IN  CallResult("determine_trial_times", r.err, IF r.err = "" THEN r.value ELSE <<>>)

determine_trial_times(h) ==
    IF h.version = "pre2018" THEN determine_trial_times_base(h) ELSE determine_trial_times_231(h)

(***************************************************************************)
(* Header files.  A file is a sequence of lines built from optional        *)
(* blocks, in the layout LabView writes: the LOGIN section, then either    *)
(* the GLOBAL PARAMETERS section of the original format or the imaging     *)
(* sections of 2.3.1 with the trial-times rows "<line number> tab <time>"  *)
(* numbered from 0 (header.py:237), and up to MaxExtra additional lines.   *)
(***************************************************************************)
Sec(name) == <<"[", name, "]">>

KV(key, text) == <<key, " ", "=", " ">> \o text

Row(i, t) == <<NumStr(i), "\t", NumStr(t)>>

Quoted(word) == <<"\"", word, "\"">>

VersionTexts ==
    {<<"2.3.1">>, Quoted("2.3.1"), <<"3.0.0">>, <<"2">>, <<>>, <<"2.3.1", "=", "x">>}

LoginBlocks ==
    {<<>>, <<Sec("LOGIN")>>, <<Sec("USER"), KV("Software Version", <<"2.3.1">>)>>}
        \cup {<<Sec("LOGIN"), KV("Software Version", v)>> : v \in VersionTexts}

CounterTexts == {<<"0">>, <<"2">>}

LegacyBlocks ==
    {<<>>,
     <<Sec("GLOBAL PARAMETERS"), KV("number of poi", <<"0">>)>>,
     <<Sec("GLOBAL PARAMETERS"), KV("number of miniscans", <<"2">>)>>,
     <<Sec("GLOBAL PARAMETERS"), KV("number of poi", <<"many">>),
       KV("number of miniscans", <<"2">>)>>}
        \cup {<<Sec("GLOBAL PARAMETERS"), KV("number of poi", a), KV("number of miniscans", b)>> :
                  a \in CounterTexts, b \in CounterTexts}

FlagTexts == {<<"TRUE">>, <<"FALSE">>}

ModesBlocks ==
    {<<>>,
     <<Sec("IMAGING MODES"), KV("Volume Imaging", <<"TRUE">>)>>,
     <<Sec("IMAGING MODES"), KV("Volume Imaging", Quoted("TRUE")),
       KV("Functional Imaging", <<"FALSE">>)>>}
        \cup {<<Sec("IMAGING MODES"), KV("Volume Imaging", a), KV("Functional Imaging", b)>> :
                  a \in FlagTexts, b \in FlagTexts}

FunctionalBlocks ==
    {<<>>, <<Sec("FUNCTIONAL IMAGING")>>}
        \cup {<<Sec("FUNCTIONAL IMAGING"), KV("Functional Mode", m)>> :
                  m \in {Quoted("Point"), Quoted("Patch"), Quoted("Line")}}

\* the time written in row i: rising or falling with the row number
RowTime(pattern, i) == IF pattern = "rising" THEN i + 1 ELSE MaxRows + 1 - i

RECURSIVE Rows(_, _)
Rows(pattern, m) ==
    IF m = 0 THEN <<>> ELSE Append(Rows(pattern, m - 1), Row(m - 1, RowTime(pattern, m - 1)))

TimesBlocks ==
    {<<>>, <<Sec("Intertrial FIFO Times")>> \o Rows("falling", MaxRows)}
        \cup {<<Sec("Intertrial FIFO Times")>> \o Rows("rising", m) : m \in 0..MaxRows}

\* the sub-mode is varied where it is consulted: functional imaging alone
ImagingBlocks ==
    {modes \o functional :
         modes \in ModesBlocks,
         functional \in {<<>>, <<Sec("FUNCTIONAL IMAGING"),
                                 KV("Functional Mode", Quoted("Point"))>>}}
        \cup {<<Sec("IMAGING MODES"), KV("Volume Imaging", <<"FALSE">>),
                KV("Functional Imaging", <<"TRUE">>)>> \o functional :
                  functional \in FunctionalBlocks}

\* the imaging sections that stand for an imaging mode
ModeBlocks ==
    {<<Sec("IMAGING MODES"), KV("Volume Imaging", volume), KV("Functional Imaging", <<"FALSE">>)>> :
         volume \in {<<"TRUE">>, Quoted("TRUE")}}
        \cup {<<Sec("IMAGING MODES"), KV("Volume Imaging", <<"FALSE">>),
                KV("Functional Imaging", <<"TRUE">>), Sec("FUNCTIONAL IMAGING"),
                KV("Functional Mode", m)>> : m \in {Quoted("Point"), Quoted("Patch")}}

\* every number of rows with the sections that stand for a mode; no
\* trial-times section or a full one with the others
BaseFiles ==
    {login \o legacy : login \in LoginBlocks, legacy \in LegacyBlocks}
        \cup {login \o imaging \o times :
                  login \in LoginBlocks, imaging \in ModeBlocks, times \in TimesBlocks}
        \cup {login \o imaging \o times :
                  login \in LoginBlocks, imaging \in ImagingBlocks,
                  times \in {<<>>, <<Sec("Intertrial FIFO Times")>> \o Rows("rising", MaxRows)}}

ExtraLines == {<<" ", "junk", "\t">>, <<" ">>}

InsertAt(lines, pos, line) ==
    SubSeq(lines, 1, pos) \o <<line>> \o SubSeq(lines, pos + 1, Len(lines))

ExtraPositions(f) == {0, Len(f) \div 2, Len(f)}

Extended(f) == {InsertAt(f, pos, line) : pos \in ExtraPositions(f), line \in ExtraLines}

RECURSIVE WithExtras(_, _)
WithExtras(files, n) ==
    IF n = 0 THEN files
    ELSE files \cup WithExtras(UNION {Extended(f) : f \in files}, n - 1)

HeaderFiles == WithExtras(BaseFiles, MaxExtra)

(***************************************************************************)
(* The header specification: from_file, then calls on the header object.   *)
(***************************************************************************)
NotLoaded ==
    [status |-> "none", err |-> "", class |-> "none", version |-> "none",
     imaging_mode |-> "none", raw_fields |-> <<>>, sections |-> EmptyDict,
     trial_times |-> EmptyDict, warnings |-> 0]

NoCall == CallResult("none", "", <<>>)

NoSpeed == <<>>

NoEpochs == [pc |-> "idle"]

NoTimingInput == [kind |-> "none"]

NoTimingOutput == [status |-> "none"]

NoRois == [status |-> "none"]

NoNwb == [status |-> "none"]

NoSessions == [status |-> "none"]

InitHeader ==
    /\ file \in HeaderFiles
    /\ hdr = NotLoaded
    /\ call = NoCall
    /\ speed = NoSpeed
    /\ epochs = NoEpochs
    /\ tin = NoTimingInput
    /\ tout = NoTimingOutput
    /\ rois = NoRois
    /\ nwb = NoNwb
    /\ sess = NoSessions

\* header_object = LabViewHeader.from_file(header_file)
FromFile ==
    /\ hdr.status = "none"
    /\ hdr' = from_file(file)
    /\ UNCHANGED <<file, call, speed, epochs, tin, tout, rois, nwb, sess>>

\* header.determine_trial_times()
DetermineTrialTimes ==
    /\ hdr.status = "ok"
    /\ call' = determine_trial_times(hdr)
    /\ UNCHANGED <<file, hdr, speed, epochs, tin, tout, rois, nwb, sess>>

\* header.version, header.py:156-158 and 193-195
Version ==
    /\ hdr.status = "ok"
    /\ call' = CallResult("version", "", hdr.version)
    /\ UNCHANGED <<file, hdr, speed, epochs, tin, tout, rois, nwb, sess>>

\* header.imaging_mode, header.py:96-98
ImagingMode ==
    /\ hdr.status = "ok"
    /\ call' = CallResult("imaging_mode", "", hdr.imaging_mode)
    /\ UNCHANGED <<file, hdr, speed, epochs, tin, tout, rois, nwb, sess>>

\* header.get_raw_fields(), header.py:134-141
GetRawFields ==
    /\ hdr.status = "ok"
    /\ call' = CallResult("get_raw_fields", "", hdr.raw_fields)
    /\ UNCHANGED <<file, hdr, speed, epochs, tin, tout, rois, nwb, sess>>

NextHeader == FromFile \/ DetermineTrialTimes \/ Version \/ ImagingMode \/ GetRawFields

SpecHeader == InitHeader /\ [][NextHeader]_vars

(***************************************************************************)
(* The legacy trial detection, NwbFile.determine_trial_times               *)
(* (nwb_file.py:504-558), on the speed data of a session.  The speed file  *)
(* gives, per sample, the clock time and the counter 'microseconds since   *)
(* start of trial'; clock[i] is the time of sample i after the first       *)
(* sample.  Times are in microseconds.                                     *)
(***************************************************************************)
MaxSamples == 4   \* samples in the speed file
MaxCounter == 2   \* largest value of the per-trial counter
MaxGap == 2       \* largest step of the clock between two samples

\* clocks of n samples: 0 first, then strictly increasing
RECURSIVE Clocks(_)
Clocks(n) ==
    IF n = 1 THEN {<<0>>}
    ELSE {Append(c, c[n - 1] + gap) : c \in Clocks(n - 1), gap \in {1, MaxGap}}

\* a speed file of n samples: one clock time and one counter value each
SpeedFilesOf(n) == {[clock |-> k, counter |-> c] : c \in [1..n -> 0..MaxCounter], k \in Clocks(n)}

SpeedFiles == UNION {SpeedFilesOf(n) : n \in 1..MaxSamples}

\* read_speed_data and add_speed_data, nwb_file.py:461-463 and 475-484:
\* rel_times = index - (index[0] - counter[0]), and the 'trial_times'
\* acquisition holds the counter with these timestamps
add_speed_data(f) ==
    [timestamps |-> [i \in 1..Len(f.counter) |-> f.clock[i] + f.counter[1]],
     data |-> f.counter]

\* the differences with -1 before them only
DeltasWithoutEnd(trial_times) ==
    [k \in 1..(Len(trial_times) + 1) |->
        IF k = 1 THEN 0 - 1
        ELSE IF k = Len(trial_times) + 1 THEN 0
        ELSE trial_times[k] - trial_times[k - 1]]

\* np.ediff1d(trial_times, to_begin=-1, to_end=-1), nwb_file.py:523;
\* deltas[k] here is the entry of index k - 1 there
Deltas(trial_times) ==
    [k \in 1..(Len(trial_times) + 1) |->
        IF k = 1 \/ k = Len(trial_times) + 1
        THEN 0 - 1
        ELSE trial_times[k] - trial_times[k - 1]]

\* (deltas < 0).nonzero()[0], nwb_file.py:525: the indices (from 0) in order
RECURSIVE NegativeIndices(_, _)
NegativeIndices(deltas, k) ==
    IF k > Len(deltas) THEN <<>>
    ELSE IF deltas[k] < 0 THEN <<k - 1>> \o NegativeIndices(deltas, k + 1)
    ELSE NegativeIndices(deltas, k + 1)

\* nwb_file.py:527
NumTrials(reset_idxs) == Len(reset_idxs) \div 2

\* nwb_file.py:528-529: rows of two indices, the second moved back by one
ResetPairs(reset_idxs) ==
    [i \in 1..NumTrials(reset_idxs) |->
        <<reset_idxs[2 * i - 1], reset_idxs[2 * i] - 1>>]

\* nwb_file.py:532-534: times of the paired samples, the start corrected by
\* the counter of its sample
EpochTimes(ts) ==
    LET pairs == ResetPairs(NegativeIndices(Deltas(ts.data), 1))
    IN  [i \in 1..Len(pairs) |->
            [start |-> ts.timestamps[pairs[i][1] + 1] - ts.data[pairs[i][1] + 1],
             stop |-> ts.timestamps[pairs[i][2] + 1]]]

\* nwb_file.py:548
EpochAssertion(e) == e.stop > e.start /\ e.start >= 0

\* nwb_file.py:547-557: the loop from interval i on; it stops at the first
\* interval that fails the assertion
RECURSIVE AddEpochs(_, _)
AddEpochs(epoch_times, i) ==
    IF i > Len(epoch_times) THEN [err |-> "", trials |-> <<>>]
    ELSE IF ~EpochAssertion(epoch_times[i]) THEN [err |-> "AssertionError", trials |-> <<>>]
    ELSE LET rest == AddEpochs(epoch_times, i + 1)
         IN  [err |-> rest.err, trials |-> <<epoch_times[i]>> \o rest.trials]

\* NwbFile.determine_trial_times for LabViewVersions.pre2018,
\* nwb_file.py:516-558
determine_trial_times_pre2018(ts) ==
    LET epoch_times == EpochTimes(ts)
        added == AddEpochs(epoch_times, 1)
    IN  [pc |-> IF added.err = "" THEN "done" ELSE "failed",
         err |-> added.err,
         num_trials |-> Len(epoch_times),
         trials |-> added.trials,
         written |-> added.err = ""]

InitEpochs ==
    /\ file = <<>>
    /\ hdr = NotLoaded
    /\ call = NoCall
    /\ speed \in {[file |-> f, trial_times |-> <<>>] : f \in SpeedFiles}
    /\ epochs = NoEpochs
    /\ tin = NoTimingInput
    /\ tout = NoTimingOutput
    /\ rois = NoRois
    /\ nwb = NoNwb
    /\ sess = NoSessions

\* nwb.add_speed_data(speed_data, start_time)
AddSpeedData ==
    /\ epochs.pc = "idle"
    /\ speed.trial_times = <<>>
    /\ speed' = [speed EXCEPT !.trial_times = add_speed_data(speed.file)]
    /\ UNCHANGED <<file, hdr, call, epochs, tin, tout, rois, nwb, sess>>

\* nwb.determine_trial_times()
DetermineTrialTimesFromSpeed ==
    /\ epochs.pc = "idle"
    /\ speed.trial_times # <<>>
    /\ epochs' = determine_trial_times_pre2018(speed.trial_times)
    /\ UNCHANGED <<file, hdr, call, speed, tin, tout, rois, nwb, sess>>

NextEpochs == AddSpeedData \/ DetermineTrialTimesFromSpeed

SpecEpochs == InitEpochs /\ [][NextEpochs]_vars

(***************************************************************************)
(* The pixel-timing reconstructors (timings.py).  Times are integers in    *)
(* microseconds: the division by 1e6 on reading is a change of unit that   *)
(* the caller also applies to the dwell time (nwb_file.py:614, 622).  An   *)
(* array is a sequence indexed from 1; the dictionary of arrays per ROI    *)
(* has the keys 0..n_rois-1 of the code.                                   *)
(***************************************************************************)
MaxTrials == 2    \* trials in the raw timing file, and the n_trials argument
MaxCycles == 2    \* cycles per trial
MaxRois == 2      \* rows of the ROI table
MaxExtent == 2    \* pixel extent of a ROI along X and along Y
MaxDwell == 2     \* dwell time per pixel

Min(a, b) == IF a <= b THEN a ELSE b

\* values[start:end] for 0 <= start <= end
Slice(values, start, end) == SubSeq(values, start + 1, Min(end, Len(values)))

\* np.arange(n_pixels_per_line) * dwell_time, timings.py:54 and 78
RowIncrements(n_pixels_per_line, dwell_time) ==
    [p \in 1..n_pixels_per_line |-> (p - 1) * dwell_time]

\* the increments taken off the line times
BroadcastSubtract(row_offsets, row_increments) ==
    [l \in 1..Len(row_offsets) |->
        [p \in 1..Len(row_increments) |-> row_offsets[l] - row_increments[p]]]

\* row_offsets[:, np.newaxis] + row_increments, timings.py:60 and 87
Broadcast(row_offsets, row_increments) ==
    [l \in 1..Len(row_offsets) |->
        [p \in 1..Len(row_increments) |-> row_offsets[l] + row_increments[p]]]

\* the extents of the first row as they are, none taken for pointing mode
read_roi_data_as_given(roi_data) ==
    IF Len(roi_data) = 0
    THEN [err |-> "KeyError", n_rois |-> 0, n_lines_per_roi |-> 0, n_pixels_per_line |-> 0]
    ELSE [err |-> "", n_rois |-> Len(roi_data),
          n_lines_per_roi |-> IF roi_data[1].angle = 0
                              THEN roi_data[1].y_stop - roi_data[1].y_start
                              ELSE roi_data[1].x_stop - roi_data[1].x_start,
          n_pixels_per_line |-> IF roi_data[1].angle = 0
                                THEN roi_data[1].x_stop - roi_data[1].x_start
                                ELSE roi_data[1].y_stop - roi_data[1].y_start]

\* LabViewTimings._read_roi_data, timings.py:18-38
read_roi_data(roi_data) ==
    IF Len(roi_data) = 0
    THEN [err |-> "KeyError", n_rois |-> 0, n_lines_per_roi |-> 0, n_pixels_per_line |-> 0]
    ELSE LET n_y_pixels == roi_data[1].y_stop - roi_data[1].y_start
             n_x_pixels == roi_data[1].x_stop - roi_data[1].x_start
             lines == IF roi_data[1].angle = 0 THEN n_y_pixels ELSE n_x_pixels
             pixels == IF roi_data[1].angle = 0 THEN n_x_pixels ELSE n_y_pixels
         IN  IF pixels = 0 /\ lines = 0
             THEN [err |-> "", n_rois |-> Len(roi_data),
                   n_lines_per_roi |-> 1, n_pixels_per_line |-> 1]
             ELSE [err |-> "", n_rois |-> Len(roi_data),
                   n_lines_per_roi |-> lines, n_pixels_per_line |-> pixels]

TimingFailure(err) == [status |-> "error", err |-> err]

IsNonZero(x) == x # 0

\* the column taken as it is in the file
read_relative_times_file_unfiltered(column) == column

\* LabViewTimings231._read_relative_times_file, timings.py:70-73
read_relative_times_file_231(column) == SelectSeq(column, IsNonZero)

\* the stride of a cycle taken as the lines of one ROI
StartIndexOneRoiCycle(geo, roi_index, cycle_index) ==
    geo.n_lines_per_roi * roi_index + geo.n_lines_per_roi * cycle_index

\* every ROI gathered from the start of the cycle
StartIndexOfCycle(geo, roi_index, cycle_index) ==
    (geo.n_rois * geo.n_lines_per_roi) * cycle_index

\* timings.py:82
StartIndex231(geo, roi_index, cycle_index) ==
    geo.n_lines_per_roi * roi_index + (geo.n_rois * geo.n_lines_per_roi) * cycle_index

\* timings.py:81-84: the slices gathered for one ROI, one per cycle
GatherRoi(values, geo, roi_index, n_cycles) ==
    [k \in 1..n_cycles |->
        Slice(values, StartIndex231(geo, roi_index, k - 1),
              StartIndex231(geo, roi_index, k - 1) + geo.n_lines_per_roi)]

\* np.reshape(..., (n_trials * n_cycles_per_trial, n_lines_per_roi)) succeeds
Reshapes(slices, geo) == \A k \in 1..Len(slices) : Len(slices[k]) = geo.n_lines_per_roi

\* timings.py:85-87
RoiTensor231(values, geo, roi_index, n_cycles, dwell_time) ==
    LET slices == GatherRoi(values, geo, roi_index, n_cycles)
    IN  [k \in 1..n_cycles |->
            Broadcast(slices[k], RowIncrements(geo.n_pixels_per_line, dwell_time))]

\* the sample taken in the first ROI instead of the last
CycleTimeSampleFirstRoi(offsets, geo, trial_index, n_cycles_per_trial) ==
    offsets[0][trial_index * n_cycles_per_trial + 1][geo.n_lines_per_roi][1]

\* timings.py:93-95: the sample of one trial
CycleTimeSample(offsets, geo, trial_index, n_cycles_per_trial) ==
    offsets[geo.n_rois - 1][trial_index * n_cycles_per_trial + 1][geo.n_lines_per_roi][1]

RECURSIVE Sum(_)
Sum(values) == IF Len(values) = 0 THEN 0 ELSE Head(values) + Sum(Tail(values))

\* np.mean, timings.py:97: the mean is the fraction sum / count
Mean(values) == [sum |-> Sum(values), count |-> Len(values)]

\* LabViewTimings231._format_pixel_time_offsets, timings.py:75-101
format_pixel_time_offsets_231(values, geo, dwell_time, n_cycles_per_trial, n_trials) ==
    LET n_cycles == n_cycles_per_trial * n_trials
        offsets == [roi_index \in 0..(geo.n_rois - 1) |->
                       RoiTensor231(values, geo, roi_index, n_cycles, dwell_time)]
    IN  IF \E roi_index \in 0..(geo.n_rois - 1) :
               ~Reshapes(GatherRoi(values, geo, roi_index, n_cycles), geo)
        THEN TimingFailure("ValueError")
        ELSE IF geo.n_lines_per_roi = 0 \/ geo.n_pixels_per_line = 0
        THEN TimingFailure("IndexError")
        ELSE [status |-> "ok", err |-> "",
              n_rois |-> geo.n_rois,
              n_lines_per_roi |-> geo.n_lines_per_roi,
              n_pixels_per_line |-> geo.n_pixels_per_line,
              pixel_time_offsets |-> offsets,
              samples |-> [i \in 1..n_trials |->
                              CycleTimeSample(offsets, geo, i - 1, n_cycles_per_trial)],
              cycle_time |-> Mean([i \in 1..n_trials |->
                              CycleTimeSample(offsets, geo, i - 1, n_cycles_per_trial)])]

\* LabViewTimings231(...), timings.py:9-12 and 66-68
LabViewTimings231(in) ==
    LET values == read_relative_times_file_231(in.column)
        geo == read_roi_data(in.roi_data)
    IN  IF geo.err # "" THEN TimingFailure(geo.err)
        ELSE format_pixel_time_offsets_231(values, geo, in.dwell_time,
                                           in.n_cycles_per_trial, in.n_trials)

\* the stride of one line instead of n_lines_per_roi
StartIndexPre2018NoStride(geo, roi_index) == roi_index

\* timings.py:57
StartIndexPre2018(geo, roi_index) == geo.n_lines_per_roi * roi_index

\* LabViewTimingsPre2018._format_pixel_time_offsets, timings.py:53-61
format_pixel_time_offsets_pre2018(relative_times, geo, dwell_time) ==
    [roi_index \in 0..(geo.n_rois - 1) |->
        Broadcast(Slice(relative_times, StartIndexPre2018(geo, roi_index),
                        StartIndexPre2018(geo, roi_index) + geo.n_lines_per_roi),
                  RowIncrements(geo.n_pixels_per_line, dwell_time))]

\* raw_data['CycleTime'][0], timings.py:51
FirstCycleTime(rows) == rows[1].CycleTime

\* LabViewTimingsPre2018(...), timings.py:9-12, 43-51
LabViewTimingsPre2018(in) ==
    LET geo == read_roi_data(in.roi_data)
    IN  IF Len(in.rows) = 0 THEN TimingFailure("KeyError")
        ELSE IF geo.err # "" THEN TimingFailure(geo.err)
        ELSE [status |-> "ok", err |-> "",
              n_rois |-> geo.n_rois,
              n_lines_per_roi |-> geo.n_lines_per_roi,
              n_pixels_per_line |-> geo.n_pixels_per_line,
              pixel_time_offsets |->
                  format_pixel_time_offsets_pre2018(
                      [i \in 1..Len(in.rows) |-> in.rows[i].RelativeTime], geo, in.dwell_time),
              cycle_time |-> FirstCycleTime(in.rows)]

(***************************************************************************)
(* Inputs of the reconstructors.  The ROI table has the columns            *)
(* _read_roi_data reads; all its rows are alike, as that code assumes.     *)
(* The 2.3.1 timing column is the flattening (trial, cycle, ROI, line) of  *)
(* a tensor of line times, with zero rows of padding put in; the legacy    *)
(* file has one row per line of each ROI, give or take a row.              *)
(***************************************************************************)
Extents == {0, 1, MaxExtent}

RoiRows ==
    {[x_start |-> 1, x_stop |-> 1 + ex, y_start |-> 0, y_stop |-> ey, angle |-> a] :
         ex \in Extents, ey \in Extents, a \in {0, 90}}

RoiTables == {[i \in 1..n |-> row] : n \in {0, 1, MaxRois}, row \in RoiRows}

\* the time of line l of ROI r in cycle c of trial t, counted from the
\* start of the trial; the trials differ by a jitter of t
LineTime(base, t, c, r, l, R, L) == base + ((c * R + r) * L + l) * MaxTrials + t

\* the tensor of line times flattened: trial, then cycle, then ROI, then line
Flatten(base, T, C, R, L) ==
    [i \in 1..(T * C * R * L) |->
        LineTime(base,
                 (i - 1) \div (C * R * L),
                 ((i - 1) \div (R * L)) % C,
                 ((i - 1) \div L) % R,
                 (i - 1) % L,
                 R, L)]

Paddings == {"none", "ends", "inside"}

Pad(column, padding) ==
    IF padding = "ends" THEN <<0>> \o column \o <<0, 0>>
    ELSE IF padding = "inside" /\ Len(column) > 0
    THEN <<Head(column), 0>> \o Tail(column)
    ELSE column

Inputs231 ==
    {[kind |-> "v231",
      base |-> base, trials |-> T, padding |-> padding,
      column |-> Pad(Flatten(base, T, C, read_roi_data(table).n_rois,
                             read_roi_data(table).n_lines_per_roi), padding),
      roi_data |-> table, dwell_time |-> d, n_cycles_per_trial |-> C, n_trials |-> n] :
         base \in {0, 1}, T \in 1..MaxTrials, padding \in Paddings, table \in RoiTables,
         d \in {1, MaxDwell}, C \in {1, MaxCycles}, n \in 1..MaxTrials}

\* the rows of a legacy timing file: 'missing' is how many rows it has
\* fewer (or, negative, more) than one per line of each ROI
LegacyRows(table, missing) ==
    LET n == read_roi_data(table).n_rois * read_roi_data(table).n_lines_per_roi - missing
    IN  [i \in 1..(IF n > 0 THEN n ELSE 0) |-> [RelativeTime |-> 3 * i, CycleTime |-> 50 + i]]

InputsPre2018 ==
    {[kind |-> "pre2018", missing |-> missing, rows |-> LegacyRows(table, missing),
      roi_data |-> table, dwell_time |-> d] :
         missing \in {0 - 1, 0, 1}, table \in RoiTables, d \in {1, MaxDwell}}

InitTimings ==
    /\ file = <<>>
    /\ hdr = NotLoaded
    /\ call = NoCall
    /\ speed = NoSpeed
    /\ epochs = NoEpochs
    /\ tin \in Inputs231 \cup InputsPre2018
    /\ tout = NoTimingOutput
    /\ rois = NoRois
    /\ nwb = NoNwb
    /\ sess = NoSessions

\* timings = LabViewTimings231(...), nwb_file.py:618-622
NewTimings231 ==
    /\ tin.kind = "v231"
    /\ tout.status = "none"
    /\ tout' = LabViewTimings231(tin)
    /\ UNCHANGED <<file, hdr, call, speed, epochs, tin, rois, nwb, sess>>

\* timings = LabViewTimingsPre2018(...), nwb_file.py:612-614
NewTimingsPre2018 ==
    /\ tin.kind = "pre2018"
    /\ tout.status = "none"
    /\ tout' = LabViewTimingsPre2018(tin)
    /\ UNCHANGED <<file, hdr, call, speed, epochs, tin, rois, nwb, sess>>

NextTimings == NewTimings231 \/ NewTimingsPre2018

SpecTimings == InitTimings /\ [][NextTimings]_vars

(***************************************************************************)
(* Reading a header file as text, without the parser: which lines are      *)
(* section openers, key/value lines, table rows or unrecognised, and what  *)
(* is written for a key of a section.  The properties below compare the    *)
(* outcome of from_file with these.                                        *)
(***************************************************************************)
IsOpener(raw) == Len(strip(raw)) > 0 /\ strip(raw)[1] = "["

IsKeyValue(raw) == Len(strip(raw)) > 0 /\ ~IsOpener(raw) /\ Contains(strip(raw), "=")

IsRow(raw) ==
    Len(strip(raw)) > 0 /\ ~IsOpener(raw) /\ ~IsKeyValue(raw) /\ Contains(strip(raw), "\t")

IsUnrecognised(raw) ==
    Len(strip(raw)) > 0 /\ ~IsOpener(raw) /\ ~IsKeyValue(raw) /\ ~IsRow(raw)

IsRecognised(raw) == ~IsUnrecognised(raw)

Max(S) == CHOOSE x \in S : \A y \in S : y <= x

\* the name of the section line i of file f belongs to (<<>> before any opener)
SectionAt(f, i) ==
    LET openers == {j \in 1..(i - 1) : IsOpener(f[j])}
    IN  IF openers = {} THEN <<>>
        ELSE SubSeq(strip(f[Max(openers)]), 2, Len(strip(f[Max(openers)])) - 1)

\* the lines of f that give key in section sec
LinesOf(f, sec, key) ==
    {i \in 1..Len(f) : /\ IsKeyValue(f[i])
                       /\ SectionAt(f, i) = sec
                       /\ strip(SubSeq(strip(f[i]), 1, FirstIndex(strip(f[i]), "=") - 1)) = key}

Written(f, sec, key) == LinesOf(f, sec, key) # {}

\* what is written after the first '=' on the last line giving key in sec
TextOf(f, sec, key) ==
    LET line == strip(f[Max(LinesOf(f, sec, key))])
    IN  strip(SubSeq(line, FirstIndex(line, "=") + 1, Len(line)))

Says(f, sec, key, word) ==
    Written(f, sec, key) /\ TextOf(f, sec, key) \in {<<word>>, Quoted(word)}

\* the number written for key in sec, 0 when it is absent
CountOf(f, sec, key) ==
    IF Written(f, sec, key) /\ IsFloat(TextOf(f, sec, key))
    THEN FloatOf(TextOf(f, sec, key))
    ELSE 0

IsNumber(f, sec, key) == Written(f, sec, key) /\ IsFloat(TextOf(f, sec, key))

\* the times of the table rows of f, in file order
RECURSIVE RowTimes(_)
RowTimes(f) ==
    IF Len(f) = 0 THEN <<>>
    ELSE IF IsRow(Head(f))
    THEN <<FloatOf(split(strip(Head(f)), "\t")[2])>> \o RowTimes(Tail(f))
    ELSE RowTimes(Tail(f))

NumberOfUnrecognised(f) == Len(SelectSeq(f, IsUnrecognised))

WithoutUnrecognised(f) == SelectSeq(f, IsRecognised)

Loaded == hdr.status # "none"

(***************************************************************************)
(* Properties of the header parser and the header classes.                 *)
(***************************************************************************)
Login == Section("LOGIN")

SoftwareVersion == Key("Software Version")

\* C1: from_file resolves the schema generation from the 'Software Version'
\* key of the LOGIN section only: when the key or the section is absent it
\* instantiates the pre-2018 class; when the key is written with the label
\* 2.3.1 it instantiates the 2.3.1 class; for every other written value no
\* header object is returned and the ValueError for an unsupported version
\* is raised.
C1_VersionResolution ==
    Loaded =>
        IF ~Written(file, Login, SoftwareVersion)
        THEN hdr.class = "pre2018"
        ELSE IF Says(file, Login, SoftwareVersion, "2.3.1")
        THEN hdr.class = "v231"
        ELSE hdr.status = "error" /\ hdr.err = "ValueError: unsupported version"

\* C2: for a 2.3.1 header whose trial-times section holds m rows,
\* determine_trial_times returns ceil(m/2) intervals in row order, interval
\* i being (row 2i, row 2i+1); the end of an interval is unresolved exactly
\* when row 2i+1 does not exist, which is the last interval of an odd m.
C2_TrialTimesPairing ==
    (hdr.status = "ok" /\ hdr.version = "v231" /\ call.op = "determine_trial_times") =>
        LET rows == RowTimes(file)
            m == Len(rows)
            n == Len(call.value)
        IN  /\ call.err = ""
            /\ 2 * n >= m
            /\ 2 * n <= m + 1
            /\ \A i \in 0..(n - 1) :
                   /\ call.value[i + 1].start = rows[2 * i + 1]
                   /\ IF 2 * i + 2 <= m
                      THEN call.value[i + 1].resolved /\ call.value[i + 1].end = rows[2 * i + 2]
                      ELSE ~call.value[i + 1].resolved /\ i = n - 1

C2_Witness ==
    /\ hdr.status = "ok"
    /\ hdr.version = "v231"
    /\ call.op = "determine_trial_times"
    /\ Len(RowTimes(file)) = 3
    /\ Len(call.value) = 2
    /\ call.value[1].resolved
    /\ ~call.value[2].resolved

\* C3: on every header of the pre-2018 class determine_trial_times ends in
\* NotImplementedError, never in a ValueError and never in a list of
\* intervals, and the header object is not changed by it or by any later
\* call: version, imaging mode and raw fields read after it are those of
\* the object from_file returned.
C3_LegacyNotImplemented ==
    /\ []((hdr.version = "pre2018" /\ call.op = "determine_trial_times") =>
              (call.err = "NotImplementedError" /\ call.value = <<>>))
    /\ []((hdr.version = "pre2018" /\ call.op = "version") => call.value = "pre2018")
    /\ [][(hdr.version = "pre2018" /\ call.op = "determine_trial_times") =>
              (/\ hdr' = hdr
               /\ call'.op = "imaging_mode" => call'.value = hdr.imaging_mode
               /\ call'.op = "get_raw_fields" => call'.value = ParseFile(file).fields)]_vars

C3_Witness ==
    /\ hdr.status = "ok"
    /\ hdr.version = "pre2018"
    /\ call.op = "determine_trial_times"
    /\ call.err = "NotImplementedError"

ImagingModes == Section("IMAGING MODES")

FunctionalImaging == Section("FUNCTIONAL IMAGING")

\* the imaging mode the flags of a 2.3.1 header stand for
ExpectedMode231(f) ==
    LET volume == Says(f, ImagingModes, Key("Volume Imaging"), "TRUE")
        functional == Says(f, ImagingModes, Key("Functional Imaging"), "TRUE")
    IN  IF volume /\ functional THEN "error"
        ELSE IF volume THEN "volume"
        ELSE IF functional
        THEN IF Says(f, FunctionalImaging, Key("Functional Mode"), "Point") THEN "pointing"
             ELSE IF Says(f, FunctionalImaging, Key("Functional Mode"), "Patch") THEN "miniscan"
             ELSE "error"
        ELSE "error"

GlobalParameters == Section("GLOBAL PARAMETERS")

NumberOfPoi == Key("number of poi")

NumberOfMiniscans == Key("number of miniscans")

NumberOfResets(counter) ==
    2 + Cardinality({k \in 2..Len(counter) : counter[k] < counter[k - 1]})

\* C7: for every counter signal with strictly increasing sample times the
\* number of trials (epochs) produced is floor(R/2), R being the number of
\* negative entries of the first differences with -1 before and after, and
\* every produced interval satisfies stop > start >= 0.
C7_ResetDetection ==
    epochs.pc \in {"done", "failed"} =>
        /\ Len(epochs.trials) = NumberOfResets(speed.file.counter) \div 2
        /\ \A i \in 1..Len(epochs.trials) :
               epochs.trials[i].stop > epochs.trials[i].start /\ epochs.trials[i].start >= 0

(***************************************************************************)
(* Properties of the pixel-timing reconstructors.                          *)
(***************************************************************************)
Geometry == read_roi_data(tin.roi_data)

\* the column is the flattening of the tensor of n_trials trials, whose
\* line times are not zero
IsFlattening ==
    /\ tin.base > 0
    /\ tin.column = Flatten(tin.base, tin.n_trials, tin.n_cycles_per_trial,
                            Geometry.n_rois, Geometry.n_lines_per_roi)

\* C8: round trip of the 2.3.1 reconstructor: when the column is the
\* flattening (trial, cycle, ROI, line) of a tensor t of non-zero line
\* times for T trials, C cycles, R ROIs of L lines and P pixels per line,
\* the constructor yields one tensor per ROI index 0..R-1, each of shape
\* (T*C, L, P), with entry [k][l][p] of ROI r equal to t[k][r][l] + p*d.
C8_RoundTrip231 ==
    (/\ tin.kind = "v231"
     /\ tout.status # "none"
     /\ IsFlattening
     /\ Geometry.n_rois >= 1
     /\ Geometry.n_lines_per_roi >= 1
     /\ Geometry.n_pixels_per_line >= 1) =>
        /\ tout.status = "ok"
        /\ DOMAIN tout.pixel_time_offsets = 0..(Geometry.n_rois - 1)
        /\ \A r \in 0..(Geometry.n_rois - 1) :
               LET tensor == tout.pixel_time_offsets[r]
               IN  /\ Len(tensor) = tin.n_trials * tin.n_cycles_per_trial
                   /\ \A k \in 1..Len(tensor) :
                          /\ Len(tensor[k]) = Geometry.n_lines_per_roi
                          /\ \A l \in 1..Len(tensor[k]) :
                                 /\ Len(tensor[k][l]) = Geometry.n_pixels_per_line
                                 /\ \A p \in 1..Len(tensor[k][l]) :
                                        tensor[k][l][p] =
                                            LineTime(tin.base,
                                                     (k - 1) \div tin.n_cycles_per_trial,
                                                     (k - 1) % tin.n_cycles_per_trial,
                                                     r, l - 1, Geometry.n_rois,
                                                     Geometry.n_lines_per_roi)
                                                + (p - 1) * tin.dwell_time

C8_Witness ==
    /\ tin.kind = "v231"
    /\ tout.status = "ok"
    /\ IsFlattening
    /\ tin.n_trials = 2
    /\ tin.n_cycles_per_trial = 2
    /\ tout.n_rois = 2
    /\ tout.n_lines_per_roi = 2
    /\ tout.n_pixels_per_line = 2

\* the input with another number of trials, in the file and as argument
WithTrials(in, T) ==
    [in EXCEPT !.trials = T, !.n_trials = T,
               !.column = Pad(Flatten(in.base, T, in.n_cycles_per_trial, Geometry.n_rois,
                                      Geometry.n_lines_per_roi), in.padding)]

\* C9: the 2.3.1 cycle_time is the mean, over the trials i in 0..T-1, of the
\* offset at (first cycle of trial i, last ROI, last line, pixel 0); the
\* sample of trial i is the line time of that place in the flattened
\* tensor, and it is the same whatever the number of trials is, in the
\* argument alone or in the file as well: only the samples included and
\* the denominator change.
C9_CycleTimeMean ==
    (tin.kind = "v231" /\ tout.status = "ok") =>
        /\ tout.cycle_time.count = tin.n_trials
        /\ tout.cycle_time.sum =
               Sum([i \in 1..tin.n_trials |->
                       tout.pixel_time_offsets[tout.n_rois - 1]
                           [(i - 1) * tin.n_cycles_per_trial + 1][tout.n_lines_per_roi][1]])
        /\ tin.base > 0 =>
               \A i \in 1..tin.n_trials :
                   tout.samples[i] = LineTime(tin.base, i - 1, 0, tout.n_rois - 1,
                                              tout.n_lines_per_roi - 1, tout.n_rois,
                                              tout.n_lines_per_roi)
        /\ \A T \in 1..MaxTrials :
               \A other \in {LabViewTimings231([tin EXCEPT !.n_trials = T]),
                             LabViewTimings231(WithTrials(tin, T))} :
                   other.status = "ok" =>
                       /\ other.cycle_time.count = T
                       /\ \A i \in 1..Min(T, tin.n_trials) : other.samples[i] = tout.samples[i]

C9_Witness ==
    /\ tin.kind = "v231"
    /\ tout.status = "ok"
    /\ tin.n_trials = 2
    /\ tin.n_cycles_per_trial = 2
    /\ tout.n_rois = 2
    /\ tout.n_lines_per_roi = 2
    /\ tout.samples[1] # tout.samples[2]
    /\ tout.cycle_time.sum = tout.samples[1] + tout.samples[2]

\* C10: the legacy reconstructor: for R ROIs of L lines and P pixels per
\* line and a timing file with a row for each line of each ROI, the
\* constructor yields for each ROI r in 0..R-1 an (L, P) array whose entry
\* [l][p] is the first column of row r*L + l plus p * dwell_time, and
\* cycle_time is the second column of the first row.
C10_LegacyOffsets ==
    (/\ tin.kind = "pre2018"
     /\ tout.status # "none"
     /\ Geometry.n_rois >= 1
     /\ Len(tin.rows) >= 1
     /\ Len(tin.rows) >= Geometry.n_rois * Geometry.n_lines_per_roi) =>
        /\ tout.status = "ok"
        /\ tout.cycle_time = tin.rows[1].CycleTime
        /\ DOMAIN tout.pixel_time_offsets = 0..(Geometry.n_rois - 1)
        /\ \A r \in 0..(Geometry.n_rois - 1) :
               LET array == tout.pixel_time_offsets[r]
               IN  /\ Len(array) = Geometry.n_lines_per_roi
                   /\ \A l \in 1..Len(array) :
                          /\ Len(array[l]) = Geometry.n_pixels_per_line
                          /\ \A p \in 1..Len(array[l]) :
                                 array[l][p] =
                                     tin.rows[r * Geometry.n_lines_per_roi + l].RelativeTime
                                         + (p - 1) * tin.dwell_time

C10_Witness ==
    /\ tin.kind = "pre2018"
    /\ tout.status = "ok"
    /\ tout.n_rois = 2
    /\ tout.n_lines_per_roi = 2
    /\ tout.n_pixels_per_line = 2
    /\ Len(tin.rows) = 4
    /\ tout.pixel_time_offsets[1][2][2] = tin.rows[4].RelativeTime + tin.dwell_time

(***************************************************************************)
(* The ROI readers, rois.py.  A Python dict is an object: the variable     *)
(* component rois.heap is the sequence of the dict objects that exist, and *)
(* a reader's column_mapping, type_mapping and type_conversion_post_read   *)
(* are indices into it, so that two readers holding the same object is a   *)
(* state the model can be in.                                              *)
(***************************************************************************)
MaxReaders == 2   \* reader objects constructed in one behaviour

\* RoiReader.base_column_mapping, rois.py:20-28
base_column_mapping ==
    ("ROI index" :> "roi_index") @@ ("Pixels in ROI" :> "num_pixels")
        @@ ("X start" :> "x_start") @@ ("Y start" :> "y_start") @@ ("Z start" :> "z_start")
        @@ ("X stop" :> "x_stop") @@ ("Y stop" :> "y_stop") @@ ("Z stop" :> "z_stop")
        @@ ("Laser Power (%)" :> "laser_power") @@ ("ROI Time (ns)" :> "roi_time_ns")
        @@ ("Angle (deg)" :> "angle_deg") @@ ("Composite ID" :> "composite_id")
        @@ ("Number of lines" :> "num_lines") @@ ("Frame Size" :> "frame_size")
        @@ ("Zoom" :> "zoom") @@ ("ROI group ID" :> "roi_group_id")

\* RoiReader.base_type_mapping, rois.py:30-32
base_type_mapping ==
    ("Z start" :> "float64") @@ ("Z stop" :> "float64") @@ ("Pixels in ROI" :> "float32")

\* RoiReader.base_type_conversion_post_read, rois.py:33-37
base_type_conversion_post_read ==
    ("x_start" :> "uint16") @@ ("x_stop" :> "uint16")
        @@ ("y_start" :> "uint16") @@ ("y_stop" :> "uint16")
        @@ ("num_pixels" :> "int") @@ ("num_lines" :> "int")

\* the three class attributes are the first three objects
BaseColumnMapping == 1

BaseTypeMapping == 2

BasePostRead == 3

ClassObjects ==
    <<base_column_mapping, base_type_mapping, base_type_conversion_post_read>>

\* dict.copy(): a new object with the same entries
Copy(heap, id) == Append(heap, heap[id])

\* dict.update(entries) on the object id
Update(heap, id, entries) == [heap EXCEPT ![id] = entries @@ @]

NoRoiData == [status |-> "none"]

Reader(class, column_mapping, type_mapping, type_conversion_post_read) ==
    [class |-> class, imaging_mode |-> "None", column_mapping |-> column_mapping,
     type_mapping |-> type_mapping,
     type_conversion_post_read |-> type_conversion_post_read, roi_data |-> NoRoiData]

Built(heap, reader) == [heap |-> heap, reader |-> reader]

\* the three mappings taken from the class without copy()
ClassicRoiReaderShared(heap) ==
    Built(heap, Reader("ClassicRoiReader", BaseColumnMapping, BaseTypeMapping, BasePostRead))

\* ClassicRoiReader.__init__, rois.py:123-127
ClassicRoiReader(heap) ==
    LET h1 == Copy(heap, BaseColumnMapping)
        h2 == Copy(h1, BaseTypeMapping)
        h3 == Copy(h2, BasePostRead)
    IN  Built(h3, Reader("ClassicRoiReader", Len(h1), Len(h2), Len(h3)))

\* the columns RoiReaderv300.__init__ adds, rois.py:157-163
v300_columns ==
    ("Resolution" :> "resolution") @@ ("Dwell Time per pixel" :> "pixel_dwell_time")
        @@ ("Pixels per miniscan" :> "pixels_per_miniscan")
        @@ ("Original FOV (um)" :> "original_fov_um")
        @@ ("Apparent Frame Size" :> "apparent_frame_size")

\* RoiReaderv300.__init__, rois.py:154-170; RoiReaderv300Variable inherits it
RoiReaderv300(heap, class) ==
    LET h1 == Copy(heap, BaseColumnMapping)
        h2 == Update(h1, Len(h1), v300_columns)
        h3 == Copy(h2, BaseTypeMapping)
        h4 == Copy(h3, BasePostRead)
        h5 == Update(h4, Len(h4), "pixels_per_miniscan" :> "int")
    IN  Built(h5, Reader(class, Len(h1), Len(h3), Len(h4)))

New(class, heap) ==
    IF class = "ClassicRoiReader" THEN ClassicRoiReader(heap)
    ELSE RoiReaderv300(heap, class)

(***************************************************************************)
(* get_reader.  A header is seen through the three attributes get_reader   *)
(* reads; allows_variable_rois is "absent" on the two header classes of    *)
(* header.py, which do not define it.                                      *)
(***************************************************************************)
RoiHeader(version, imaging_mode, allows_variable_rois) ==
    [version |-> version, imaging_mode |-> imaging_mode,
     allows_variable_rois |-> allows_variable_rois]

\* the headers LabViewHeader.from_file returns for the header files of the model
LoadedHeaders ==
    {RoiHeader(h.version, h.imaging_mode, "absent") :
         h \in {g \in {from_file(f) : f \in HeaderFiles} : g.status = "ok"}}

\* the version label of the 3.0.0 generation
v300 == "v300"

\* the header variant of the 3.0.0 generation: the version label and the
\* flag for variable-sized ROIs
Gen3Headers ==
    {RoiHeader(v300, mode, flag) :
         mode \in {"pointing", "miniscan"}, flag \in {"True", "False"}}

\* a header whose version is none of the labels get_reader knows
UnsupportedHeaders == {RoiHeader("other", "miniscan", "absent")}

RoiHeaders == LoadedHeaders \cup Gen3Headers \cup UnsupportedHeaders

RoiFailure(heap, err) == [heap |-> heap, err |-> err, reader |-> Reader("none", 0, 0, 0)]

Returned(built, imaging_mode) ==
    [heap |-> built.heap, err |-> "",
     reader |-> [built.reader EXCEPT !.imaging_mode = imaging_mode]]

\* the variable-ROI flag not consulted
get_reader_fixed_only(heap, header) ==
    IF header.version \in {"pre2018", "v231"}
    THEN Returned(ClassicRoiReader(heap), header.imaging_mode)
    ELSE IF header.version = v300
    THEN Returned(RoiReaderv300(heap, "RoiReaderv300"), header.imaging_mode)
    ELSE RoiFailure(heap, "ValueError: Unsupported LabView version " \o header.version)

\* RoiReader.get_reader, rois.py:39-52
get_reader(heap, header) ==
    IF header.version \in {"pre2018", "v231"}
    THEN Returned(ClassicRoiReader(heap), header.imaging_mode)
    ELSE IF header.version = v300
    THEN IF header.allows_variable_rois = "absent"
         THEN RoiFailure(heap, "AttributeError")
         ELSE IF header.allows_variable_rois = "True"
         THEN Returned(RoiReaderv300(heap, "RoiReaderv300Variable"), header.imaging_mode)
         ELSE Returned(RoiReaderv300(heap, "RoiReaderv300"), header.imaging_mode)
    ELSE RoiFailure(heap, "ValueError: Unsupported LabView version " \o header.version)

(***************************************************************************)
(* read_roi_table.  An ROI file is the set of its column names and its     *)
(* rows; a row gives the numbers written under the columns the readers     *)
(* look at.  Numbers are read through numpy.float16 and the coordinates    *)
(* are then cast to numpy.uint16.                                          *)
(***************************************************************************)
MaxRoiRows == 2   \* rows of an ROI table

UInt16 == 65536

RECURSIVE Ulp(_)
\* the spacing of the float16 numbers around the integer n >= 0
Ulp(n) == IF n < 2048 THEN 1 ELSE 2 * Ulp(n \div 2)

\* numpy.float16 of a whole number below 65520: round to nearest, ties to even
Float16(v) ==
    LET n == IF v < 0 THEN 0 - v ELSE v
        u == Ulp(n)
        q == n \div u
        r == n % u
        m == IF 2 * r < u THEN q
             ELSE IF 2 * r > u THEN q + 1
             ELSE IF q % 2 = 0 THEN q ELSE q + 1
    IN  IF v < 0 THEN 0 - (m * u) ELSE m * u

\* the columns of a row the readers compute with, under their file names
RowColumns ==
    ("x_start" :> "X start") @@ ("x_stop" :> "X stop") @@ ("y_start" :> "Y start")
        @@ ("y_stop" :> "Y stop") @@ ("angle_deg" :> "Angle (deg)")
        @@ ("num_lines" :> "Number of lines")
        @@ ("pixels_per_miniscan" :> "Pixels per miniscan")

Coordinates == {"x_start", "x_stop", "y_start", "y_stop"}

\* rois.py:77-79: columns without an explicitly given type are read as float16
WithDefaultTypes(column_mapping, type_mapping) ==
    [column \in (DOMAIN column_mapping) \ (DOMAIN type_mapping) |-> "float16"]
        @@ type_mapping

\* the identifiers of the columns after rename(columns=column_mapping), rois.py:84
Renamed(columns, column_mapping) ==
    {IF c \in DOMAIN column_mapping THEN column_mapping[c] ELSE c : c \in columns}

\* one number as read_csv stores it: through its converter when the column has
\* one (rois.py:80-82), as written otherwise
Converted(v, column, type_mapping) ==
    IF column \in DOMAIN type_mapping /\ type_mapping[column] = "float16"
    THEN Float16(v) ELSE v

\* astype of one number, rois.py:86: float16 to uint16 keeps the low 16 bits
AsType(v, name, post_read) ==
    IF name \in DOMAIN post_read /\ post_read[name] = "uint16" THEN v % UInt16 ELSE v

\* the element type a column of roi_data ends with
DType(name, column, type_mapping, post_read, cast) ==
    IF cast /\ name \in DOMAIN post_read THEN post_read[name]
    ELSE IF column \in DOMAIN type_mapping THEN type_mapping[column]
    ELSE "int64"

\* RoiReader.read_roi_table, rois.py:74-87
read_roi_table(heap, reader, table) ==
    IF table.status # "file"
    THEN [heap |-> heap, reader |-> reader, err |-> "AssertionError"]
    ELSE LET types == WithDefaultTypes(heap[reader.column_mapping], heap[reader.type_mapping])
             heap1 == [heap EXCEPT ![reader.type_mapping] = types]
             names == Renamed(table.columns, heap[reader.column_mapping])
             post_read == heap[reader.type_conversion_post_read]
             cast == (DOMAIN post_read) \subseteq names
             rows == [i \in 1..Len(table.rows) |->
                        [name \in DOMAIN RowColumns |->
                           LET v == Converted(table.rows[i][name], RowColumns[name], types)
                           IN  IF cast THEN AsType(v, name, post_read) ELSE v]]
             dtypes == [name \in DOMAIN RowColumns |->
                          DType(name, RowColumns[name], types, post_read, cast)]
             data == [status |-> "read", columns |-> names, rows |-> rows, dtypes |-> dtypes]
         IN  [heap |-> heap1, reader |-> [reader EXCEPT !.roi_data = data],
              err |-> IF cast THEN "" ELSE "KeyError"]

\* the difference of two elements of a column, computed in the column's type
Subtract(a, b, dtype) ==
    IF dtype = "uint16" THEN (a - b) % UInt16
    ELSE IF dtype = "float16" THEN Float16(a - b)
    ELSE a - b

LinesPixels(err, lines, pixels) == [err |-> err, lines |-> lines, pixels |-> pixels]

\* what indexing roi_data[name][roi_number] raises, "" when it returns
IndexError(reader, names, roi_number) ==
    IF reader.roi_data.status = "none" THEN "AttributeError"
    ELSE IF ~(names \subseteq reader.roi_data.columns) THEN "KeyError"
    ELSE IF roi_number + 1 > Len(reader.roi_data.rows) THEN "KeyError"
    ELSE ""

\* ClassicRoiReader._get_lines_pixels, rois.py:129-144
classic_get_lines_pixels(reader, roi_number) ==
    LET err == IndexError(reader, Coordinates \cup {"angle_deg"}, roi_number)
        row == reader.roi_data.rows[roi_number + 1]
        dtypes == reader.roi_data.dtypes
        n_y_pixels == Subtract(row.y_stop, row.y_start, dtypes.y_stop)
        n_x_pixels == Subtract(row.x_stop, row.x_start, dtypes.x_stop)
    IN  IF err # "" THEN LinesPixels(err, 0, 0)
        ELSE IF row.angle_deg = 0 THEN LinesPixels("", n_y_pixels, n_x_pixels)
        ELSE LinesPixels("", n_x_pixels, n_y_pixels)

\* RoiReaderv300._get_lines_pixels, rois.py:172-181
v300_get_lines_pixels(reader, roi_number) ==
    LET err == IndexError(reader, {"num_lines", "pixels_per_miniscan"}, roi_number)
        row == reader.roi_data.rows[roi_number + 1]
    IN  IF err # "" THEN LinesPixels(err, 0, 0)
        ELSE LinesPixels("", row.num_lines, row.pixels_per_miniscan)

\* RoiReader.get_lines_pixels, rois.py:89-100
get_lines_pixels(reader, roi_number) ==
    IF reader.imaging_mode = "pointing" THEN LinesPixels("", 1, 1)
    ELSE IF reader.class = "ClassicRoiReader" THEN classic_get_lines_pixels(reader, roi_number)
    ELSE v300_get_lines_pixels(reader, roi_number)

(***************************************************************************)
(* The ROI files of the model.                                             *)
(***************************************************************************)
NoRoiFile == [status |-> "missing"]

RoiFile(columns, rows) == [status |-> "file", columns |-> columns, rows |-> rows]

\* the columns of the files of the three generations: the mapped ones and
\* some the readers have no name for
ClassicColumns == (DOMAIN base_column_mapping) \cup {"Unnamed: 16"}

V300Columns == ClassicColumns \cup (DOMAIN v300_columns) \cup {"Unnamed: 22"}

\* start and stop of an ROI along one axis
Spans == {<<0, 1>>, <<1, 1>>, <<1, 0>>, <<2, 2049>>}

RoiTableRow(x, y, angle) ==
    [x_start |-> x[1], x_stop |-> x[2], y_start |-> y[1], y_stop |-> y[2],
     angle_deg |-> angle, num_lines |-> 2, pixels_per_miniscan |-> 3]

Turned(row) ==
    [row EXCEPT !.x_start = row.y_start, !.x_stop = row.y_stop,
                !.y_start = row.x_start, !.y_stop = row.x_stop,
                !.num_lines = row.pixels_per_miniscan,
                !.pixels_per_miniscan = row.num_lines]

\* a table of n rows: the row and the turned row in turn
RoiTableOf(row, n) == [i \in 1..n |-> IF i % 2 = 1 THEN row ELSE Turned(row)]

GeometryFiles ==
    {RoiFile(ClassicColumns, RoiTableOf(RoiTableRow(x, y, angle), n)) :
         x \in Spans, y \in {<<0, 2>>, <<3, 1>>}, angle \in {0, 90}, n \in {1, MaxRoiRows}}
        \cup {RoiFile(V300Columns, RoiTableOf(RoiTableRow(x, <<0, 2>>, angle), MaxRoiRows)) :
                  x \in {<<0, 1>>, <<1, 0>>}, angle \in {0, 90}}
        \cup {RoiFile(ClassicColumns \ {"Number of lines"},
                      RoiTableOf(RoiTableRow(x, <<0, 2>>, 0), MaxRoiRows)) :
                  x \in {<<0, 1>>, <<1, 0>>}}

ReaderFiles ==
    {NoRoiFile,
     RoiFile(ClassicColumns, RoiTableOf(RoiTableRow(<<0, 1>>, <<0, 2>>, 0), MaxRoiRows)),
     RoiFile(V300Columns, RoiTableOf(RoiTableRow(<<0, 1>>, <<0, 2>>, 0), MaxRoiRows))}

(***************************************************************************)
(* The ROI specifications: SpecRois constructs up to MaxReaders readers    *)
(* and reads the ROI file with them; SpecGeometry takes one reader from    *)
(* get_reader, reads the file and asks for the size of its ROIs.           *)
(***************************************************************************)
RoiOut(op, err, reader, roi_number, value) ==
    [op |-> op, err |-> err, reader |-> reader, roi_number |-> roi_number, value |-> value]

NoRoiOut == RoiOut("none", "", 0, 0, <<>>)

RoiClasses == {"ClassicRoiReader", "RoiReaderv300", "RoiReaderv300Variable"}

RoiState(table) ==
    [status |-> "open", heap |-> ClassObjects, readers |-> <<>>, table |-> table,
     out |-> NoRoiOut]

InitRoisWith(files) ==
    /\ file = <<>>
    /\ hdr = NotLoaded
    /\ call = NoCall
    /\ speed = NoSpeed
    /\ epochs = NoEpochs
    /\ tin = NoTimingInput
    /\ tout = NoTimingOutput
    /\ rois \in {RoiState(table) : table \in files}
    /\ nwb = NoNwb
    /\ sess = NoSessions

InitRois == InitRoisWith(ReaderFiles)

InitGeometry == InitRoisWith(GeometryFiles)

\* reader = RoiReader.get_reader(header)
GetReaderUpTo(limit) ==
    /\ Len(rois.readers) < limit
    /\ \E header \in RoiHeaders :
          LET r == get_reader(rois.heap, header)
          IN  rois' = [rois EXCEPT
                         !.heap = r.heap,
                         !.readers = IF r.err = "" THEN Append(@, r.reader) ELSE @,
                         !.out = RoiOut("get_reader", r.err,
                                        IF r.err = "" THEN Len(rois.readers) + 1 ELSE 0,
                                        0, <<header>>)]
    /\ UNCHANGED <<file, hdr, call, speed, epochs, tin, tout, nwb, sess>>

GetReader == GetReaderUpTo(MaxReaders)

GetOneReader == GetReaderUpTo(1)

\* reader = ClassicRoiReader(), RoiReaderv300() or RoiReaderv300Variable()
NewReader ==
    /\ Len(rois.readers) < MaxReaders
    /\ \E class \in RoiClasses :
          LET r == New(class, rois.heap)
          IN  rois' = [rois EXCEPT
                         !.heap = r.heap,
                         !.readers = Append(@, r.reader),
                         !.out = RoiOut("new", "", Len(rois.readers) + 1, 0, <<>>)]
    /\ UNCHANGED <<file, hdr, call, speed, epochs, tin, tout, nwb, sess>>

\* reader.read_roi_table(roi_path)
ReadRoiTable ==
    /\ \E i \in 1..Len(rois.readers) :
          LET r == read_roi_table(rois.heap, rois.readers[i], rois.table)
          IN  rois' = [rois EXCEPT
                         !.heap = r.heap,
                         !.readers[i] = r.reader,
                         !.out = RoiOut("read_roi_table", r.err, i, 0, <<>>)]
    /\ UNCHANGED <<file, hdr, call, speed, epochs, tin, tout, nwb, sess>>

\* reader.get_lines_pixels(roi_number)
GetLinesPixels ==
    /\ \E i \in 1..Len(rois.readers), roi_number \in 0..(MaxRoiRows - 1) :
          LET r == get_lines_pixels(rois.readers[i], roi_number)
          IN  rois' = [rois EXCEPT
                         !.out = RoiOut("get_lines_pixels", r.err, i, roi_number,
                                        <<r.lines, r.pixels>>)]
    /\ UNCHANGED <<file, hdr, call, speed, epochs, tin, tout, nwb, sess>>

NextRois == GetReader \/ NewReader \/ ReadRoiTable

SpecRois == InitRois /\ [][NextRois]_vars

NextGeometry == GetOneReader \/ ReadRoiTable \/ GetLinesPixels

SpecGeometry == InitGeometry /\ [][NextGeometry]_vars

(***************************************************************************)
(* The claims about the ROI readers.                                       *)
(***************************************************************************)
\* the reader and the row the last get_lines_pixels call was about
AskedReader == rois.readers[rois.out.reader]

AskedRow == AskedReader.roi_data.rows[rois.out.roi_number + 1]

AskedAnRoi ==
    /\ rois.status = "open"
    /\ rois.out.op = "get_lines_pixels"
    /\ AskedReader.class = "ClassicRoiReader"
    /\ AskedReader.roi_data.status = "read"
    /\ rois.out.roi_number < Len(AskedReader.roi_data.rows)

\* C11: for every ROI of the table a fixed-size (classic) reader holds,
\* get_lines_pixels returns (1, 1) when the imaging mode is Pointing; otherwise
\* it returns (Y extent, X extent) when the angle is 0 and (X extent, Y extent)
\* when it is not, an extent being stop minus start along the axis.
C11_LinesPixels ==
    AskedAnRoi =>
        /\ rois.out.err = ""
        /\ rois.out.value =
              IF AskedReader.imaging_mode = "pointing" THEN <<1, 1>>
              ELSE IF AskedRow.angle_deg = 0
              THEN <<AskedRow.y_stop - AskedRow.y_start, AskedRow.x_stop - AskedRow.x_start>>
              ELSE <<AskedRow.x_stop - AskedRow.x_start, AskedRow.y_stop - AskedRow.y_start>>

\* the header the last get_reader call was given and the reader it returned
GivenHeader == rois.out.value[1]

ReturnedReader == rois.readers[rois.out.reader]

GotReader == rois.status = "open" /\ rois.out.op = "get_reader"

ExpectedReaderClass(header) ==
    IF header.version \in {"pre2018", "v231"} THEN "ClassicRoiReader"
    ELSE IF header.allows_variable_rois = "True" THEN "RoiReaderv300Variable"
    ELSE "RoiReaderv300"

MappingsOf(reader) ==
    {reader.column_mapping, reader.type_mapping, reader.type_conversion_post_read}

BaseMappings == {BaseColumnMapping, BaseTypeMapping, BasePostRead}

NoSharedMappings ==
    rois.status = "open" =>
        /\ \A i \in 1..Len(rois.readers) :
              /\ Cardinality(MappingsOf(rois.readers[i])) = 3
              /\ MappingsOf(rois.readers[i]) \cap BaseMappings = {}
              /\ \A j \in 1..Len(rois.readers) :
                    i # j => MappingsOf(rois.readers[i]) \cap MappingsOf(rois.readers[j]) = {}
        /\ SubSeq(rois.heap, 1, 3) = ClassObjects

\* what one step leaves alone: the mappings of every reader other than the one
\* the step constructed or read with
OthersUntouched ==
    (rois.status = "open" /\ rois'.status = "open") =>
        \A j \in 1..Len(rois.readers) :
            j # rois'.out.reader =>
                \A id \in MappingsOf(rois.readers[j]) : rois'.heap[id] = rois.heap[id]

\* C13: after any sequence of reader constructions and read_roi_table calls no
\* two readers hold the same column_mapping, type_mapping or
\* type_conversion_post_read object, none holds a class-level base mapping, the
\* base mappings are as the class defines them, and a step on one reader
\* changes no mapping of another.
C13_MappingsIndependent == [](NoSharedMappings) /\ [][OthersUntouched]_vars

\* two classic readers, the first of which has read the ROI file: the float16
\* defaults are in its type_mapping and not in the second reader's
C13_Witness ==
    /\ rois.status = "open"
    /\ Len(rois.readers) = 2
    /\ rois.readers[1].class = "ClassicRoiReader"
    /\ rois.readers[2].class = "ClassicRoiReader"
    /\ rois.readers[1].roi_data.status = "read"
    /\ rois.heap[rois.readers[1].type_mapping]["X start"] = "float16"
    /\ "X start" \notin DOMAIN rois.heap[rois.readers[2].type_mapping]
    /\ "X start" \notin DOMAIN rois.heap[BaseTypeMapping]

(***************************************************************************)
(* The claims about the returned tensors and interval lists.               *)
(***************************************************************************)
\* a (line, pixel) block of one cycle does not decrease along either axis
NonDecreasing(block) ==
    \A l \in 1..Len(block) :
        \A p \in 1..Len(block[l]) :
            /\ l < Len(block) => block[l][p] <= block[l + 1][p]
            /\ p < Len(block[l]) => block[l][p] <= block[l][p + 1]

NoneAbove(block, limit) ==
    \A l \in 1..Len(block) : \A p \in 1..Len(block[l]) : block[l][p] <= limit

\* a trial of the 2.3.1 timing column lasts until the end of its last line
TrialDuration231(t) ==
    LineTime(tin.base, t, tin.n_cycles_per_trial - 1, Geometry.n_rois - 1,
             Geometry.n_lines_per_roi - 1, Geometry.n_rois, Geometry.n_lines_per_roi)
        + Geometry.n_pixels_per_line * tin.dwell_time

\* the cycle of the legacy timing file lasts until the end of its last line
CycleDurationPre2018 ==
    tin.rows[Len(tin.rows)].RelativeTime + Geometry.n_pixels_per_line * tin.dwell_time

OffsetsOrdered ==
    /\ (tin.kind = "v231" /\ tout.status = "ok") =>
           \A r \in DOMAIN tout.pixel_time_offsets :
               \A k \in 1..Len(tout.pixel_time_offsets[r]) :
                   /\ NonDecreasing(tout.pixel_time_offsets[r][k])
                   /\ NoneAbove(tout.pixel_time_offsets[r][k],
                                TrialDuration231((k - 1) \div tin.n_cycles_per_trial))
    /\ (tin.kind = "pre2018" /\ tout.status = "ok") =>
           \A r \in DOMAIN tout.pixel_time_offsets :
               /\ NonDecreasing(tout.pixel_time_offsets[r])
               /\ NoneAbove(tout.pixel_time_offsets[r], CycleDurationPre2018)

OrderedInput == tin.kind = "v231" => tin.base > 0

TimedFiles ==
    {<<Sec("LOGIN"), KV("Software Version", <<"2.3.1">>)>> \o imaging \o times :
         imaging \in ModeBlocks, times \in TimesBlocks}

InitTrials ==
    \/ /\ file \in TimedFiles
       /\ hdr = NotLoaded
       /\ call = NoCall
       /\ speed = NoSpeed
       /\ epochs = NoEpochs
       /\ tin = NoTimingInput
       /\ tout = NoTimingOutput
       /\ rois = NoRois
       /\ nwb = NoNwb
       /\ sess = NoSessions
    \/ InitEpochs

TrialsFromHeader == file # <<>> /\ (FromFile \/ DetermineTrialTimes)

TrialsFromSpeed == file = <<>> /\ (AddSpeedData \/ DetermineTrialTimesFromSpeed)

NextTrials == TrialsFromHeader \/ TrialsFromSpeed

SpecTrials == InitTrials /\ [][NextTrials]_vars

\* the interval list the header returned
HeaderIntervals == call.value

AskedHeaderForTrials ==
    hdr.status = "ok" /\ call.op = "determine_trial_times" /\ call.err = ""

IntervalsOrdered ==
    /\ AskedHeaderForTrials =>
           /\ \A i \in 1..Len(HeaderIntervals) :
                  /\ HeaderIntervals[i].start >= 0
                  /\ HeaderIntervals[i].resolved =>
                         HeaderIntervals[i].end > HeaderIntervals[i].start
           /\ \A i \in 1..(Len(HeaderIntervals) - 1) :
                  /\ HeaderIntervals[i].resolved
                  /\ HeaderIntervals[i].end <= HeaderIntervals[i + 1].start
    /\ epochs.pc \in {"done", "failed"} =>
           /\ \A i \in 1..Len(epochs.trials) :
                  epochs.trials[i].stop > epochs.trials[i].start /\ epochs.trials[i].start >= 0
           /\ \A i \in 1..(Len(epochs.trials) - 1) :
                  epochs.trials[i].stop <= epochs.trials[i + 1].start

\* C15 as stated: every trial-interval list produced, by the 2.3.1 header's
\* determine_trial_times or by the legacy reset detection, has end > start >= 0
\* for each resolved interval and end of interval i <= start of interval i+1.
C15_IntervalsOrdered == IntervalsOrdered

(***************************************************************************)
(* SpecSessions: two from_file calls, each on its own header file, run     *)
(* line by line in any interleaving.  The dict parsed_fields a call makes  *)
(* (header.py:31) is an object of sess.heap; the other locals of the call  *)
(* are in its record.                                                      *)
(***************************************************************************)
Sessions == {"a", "b"}

\* the two generations and their imaging modes, and a file of neither
SessionFiles ==
    {<<Sec("GLOBAL PARAMETERS"), KV("number of poi", <<"2">>),
       KV("number of miniscans", <<"0">>)>>,
     <<Sec("GLOBAL PARAMETERS"), KV("number of poi", <<"0">>),
       KV("number of miniscans", <<"2">>)>>,
     <<Sec("LOGIN"), KV("Software Version", <<"3.0.0">>)>>}
        \cup {<<Sec("LOGIN"), KV("Software Version", Quoted("2.3.1"))>> \o imaging
                  \o <<Sec("Intertrial FIFO Times")>> \o Rows("rising", 1) :
                  imaging \in ModeBlocks}

\* a dict shared by the calls instead of one made per call
SharedParsedFields(heap) ==
    IF Len(heap) = 0
    THEN [heap |-> <<EmptyDict>>, ref |-> 1]
    ELSE [heap |-> heap, ref |-> 1]

\* parsed_fields = {}, header.py:31
NewParsedFields(heap) == [heap |-> Append(heap, EmptyDict), ref |-> Len(heap) + 1]

Session(lines) ==
    [file |-> lines, pc |-> "start", pos |-> 0, parsed_fields |-> 0,
     st |-> ParseStart, result |-> NotLoaded]

InitSessions ==
    /\ file = <<>>
    /\ hdr = NotLoaded
    /\ call = NoCall
    /\ speed = NoSpeed
    /\ epochs = NoEpochs
    /\ tin = NoTimingInput
    /\ tout = NoTimingOutput
    /\ rois = NoRois
    /\ nwb = NoNwb
    /\ sess \in {[status |-> "open", heap |-> <<>>,
                  calls |-> [s \in Sessions |-> Session(IF s = "a" THEN fa ELSE fb)]] :
                     fa \in SessionFiles, fb \in SessionFiles}

\* header.py:28-31: the file is opened and the locals are made
OpenHeaderFile(s) ==
    /\ sess.calls[s].pc = "start"
    /\ LET made == NewParsedFields(sess.heap)
       IN  sess' = [sess EXCEPT
                      !.heap = made.heap,
                      !.calls[s].pc = "lines",
                      !.calls[s].parsed_fields = made.ref]
    /\ UNCHANGED <<file, hdr, call, speed, epochs, tin, tout, rois, nwb>>

\* header.py:32-56: one iteration of the line loop
ReadHeaderLine(s) ==
    /\ sess.calls[s].pc = "lines"
    /\ sess.calls[s].pos < Len(sess.calls[s].file)
    /\ sess.calls[s].st.err = ""
    /\ LET c == sess.calls[s]
           st == ParseLine([c.st EXCEPT !.sections = sess.heap[c.parsed_fields]],
                           c.file[c.pos + 1])
       IN  sess' = [sess EXCEPT
                      !.heap[c.parsed_fields] = st.sections,
                      !.calls[s].pos = c.pos + 1,
                      !.calls[s].st = [st EXCEPT !.sections = EmptyDict]]
    /\ UNCHANGED <<file, hdr, call, speed, epochs, tin, tout, rois, nwb>>

\* header.py:57-67: the loop is over (or has raised), the header is made
MakeHeader(s) ==
    /\ sess.calls[s].pc = "lines"
    /\ sess.calls[s].pos = Len(sess.calls[s].file) \/ sess.calls[s].st.err # ""
    /\ LET c == sess.calls[s]
       IN  sess' = [sess EXCEPT
                      !.calls[s].pc = "done",
                      !.calls[s].result =
                          NewHeader([c.st EXCEPT !.sections = sess.heap[c.parsed_fields]])]
    /\ UNCHANGED <<file, hdr, call, speed, epochs, tin, tout, rois, nwb>>

NextSessions ==
    \E s \in Sessions : OpenHeaderFile(s) \/ ReadHeaderLine(s) \/ MakeHeader(s)

SpecSessions == InitSessions /\ [][NextSessions]_vars

\* what resolving yields: whether a header is returned, its generation and
\* its imaging mode
Resolved(h) == <<h.status, h.version, h.imaging_mode>>

\* C16: two from_file calls on the same header file, interleaved in any way
\* with each other (and a call on any file interleaved with a call on another
\* file), yield the same schema generation and the same imaging mode: what a
\* call yields is what the file's contents alone give.
C16_Deterministic ==
    sess.status = "open" =>
        /\ \A s \in Sessions :
               sess.calls[s].pc = "done" =>
                   Resolved(sess.calls[s].result) = Resolved(from_file(sess.calls[s].file))
        /\ (/\ sess.calls["a"].pc = "done"
            /\ sess.calls["b"].pc = "done"
            /\ sess.calls["a"].file = sess.calls["b"].file) =>
               Resolved(sess.calls["a"].result) = Resolved(sess.calls["b"].result)

\* two calls on the same 2.3.1 file, each with a dict of its own, are done and
\* have returned a pointing header
C16_Witness ==
    /\ sess.status = "open"
    /\ sess.calls["a"].pc = "done"
    /\ sess.calls["b"].pc = "done"
    /\ sess.calls["a"].file = sess.calls["b"].file
    /\ sess.calls["a"].parsed_fields = 1
    /\ sess.calls["b"].parsed_fields = 2
    /\ sess.calls["a"].result.status = "ok"
    /\ sess.calls["a"].result.version = "v231"
    /\ sess.calls["b"].result.imaging_mode = "pointing"

(***************************************************************************)
(* SpecCalls: the public operations of a header object, called in any      *)
(* order.  An operation maps the object to the object it leaves and the    *)
(* result it returns (an exception is a result).  sess.seen keeps, for     *)
(* each operation and argument, how often it was called and what the first *)
(* and the latest call returned.                                           *)
(***************************************************************************)
MaxCalls == 2     \* calls of one operation with one argument

Outcome(h, result) == [self |-> h, result |-> result]

IntValue(n) == [t |-> "int", n |-> n, s |-> <<>>]

\* LabViewHeaderPre2018.property_names, header.py:146-154
property_names_pre2018 ==
    [frame_size |-> Key("frame size"), field_of_view |-> Key("field of view"),
     dwell_time |-> Key("dwelltime (us)"), number_of_cycles |-> Key("number of cycles"),
     number_of_miniscans |-> Key("number of miniscans"),
     gain_red |-> Key("pmt 1"), gain_green |-> Key("pmt 2")]

\* LabViewHeader231.property_names, header.py:175-183
property_names_231 ==
    [frame_size |-> Key("Frame Size"), field_of_view |-> Key("field of view"),
     dwell_time |-> Key("pixel dwell time (us)"), number_of_cycles |-> Key("Number of cycles"),
     number_of_miniscans |-> Key("Number of miniscans"),
     gain_red |-> Key("pmt 1"), gain_green |-> Key("pmt 2")]

property_names(h) ==
    IF h.version = "pre2018" THEN property_names_pre2018 ELSE property_names_231

\* _imaging_section, header.py:168-170 and 218-224: the name of the section
imaging_section_name(h) ==
    IF h.version = "pre2018" THEN Section("GLOBAL PARAMETERS")
    ELSE IF h.imaging_mode = "volume" THEN Section("VOLUME IMAGING")
    ELSE Section("FUNCTIONAL IMAGING")

\* header[item], header.py:82-84
getitem(h, item) ==
    IF Has(h.sections, item)
    THEN Outcome(h, CallResult("getitem", "", h.sections[item]))
    ELSE Outcome(h, CallResult("getitem", "KeyError", <<>>))

\* section[name] and int(section[name]): the exception, if any
ReadError(section, name) == IF Has(section, name) THEN "" ELSE "KeyError"

IntError(section, name) ==
    IF ~Has(section, name) THEN "KeyError"
    ELSE IF section[name].t = "str" THEN "ValueError"
    ELSE ""

FirstError(errs) ==
    IF \A i \in 1..Len(errs) : errs[i] = "" THEN ""
    ELSE errs[CHOOSE i \in 1..Len(errs) : errs[i] # "" /\ \A j \in 1..(i - 1) : errs[j] = ""]

ImagingInformation(section, names) ==
    [cycles_per_trial |-> section[names.number_of_cycles].n,
     gains |-> [Red |-> section[names.gain_red], Green |-> section[names.gain_green]],
     frame_size |-> section[names.frame_size].n,
     field_of_view |-> section[names.field_of_view],
     number_of_miniscans |-> section[names.number_of_miniscans].n,
     dwell_time |-> section[names.dwell_time]]

\* the integer parameters cast where they are stored
get_imaging_information_in_place(h) ==
    LET name == imaging_section_name(h)
        names == property_names(h)
        section == h.sections[name]
        cast == [k \in DOMAIN section |->
                    IF /\ k \in {names.number_of_cycles, names.frame_size,
                                 names.number_of_miniscans}
                       /\ section[k].t = "float"
                    THEN IntValue(section[k].n) ELSE section[k]]
        err == IF ~Has(h.sections, name) THEN "KeyError"
               ELSE FirstError(<<IntError(section, names.number_of_cycles),
                                 ReadError(section, names.gain_red),
                                 ReadError(section, names.gain_green),
                                 IntError(section, names.frame_size),
                                 ReadError(section, names.field_of_view),
                                 IntError(section, names.number_of_miniscans),
                                 ReadError(section, names.dwell_time)>>)
    IN  IF err # ""
        THEN Outcome(h, CallResult("get_imaging_information", err, <<>>))
        ELSE Outcome([h EXCEPT !.sections = Put(h.sections, name, cast)],
                     CallResult("get_imaging_information", "",
                                ImagingInformation(section, names)))

\* LabViewHeader.get_imaging_information, header.py:109-124
get_imaging_information(h) ==
    LET name == imaging_section_name(h)
        names == property_names(h)
        section == h.sections[name]
        err == IF ~Has(h.sections, name) THEN "KeyError"
               ELSE FirstError(<<IntError(section, names.number_of_cycles),
                                 ReadError(section, names.gain_red),
                                 ReadError(section, names.gain_green),
                                 IntError(section, names.frame_size),
                                 ReadError(section, names.field_of_view),
                                 IntError(section, names.number_of_miniscans),
                                 ReadError(section, names.dwell_time)>>)
    IN  IF err # ""
        THEN Outcome(h, CallResult("get_imaging_information", err, <<>>))
        ELSE Outcome(h, CallResult("get_imaging_information", "",
                                   ImagingInformation(section, names)))

\* the imaging parameters of a session, under the names of each generation
Parameters(names, cycles) ==
    <<KV(names.number_of_cycles[1], cycles), KV(names.gain_red[1], <<"3">>),
      KV(names.gain_green[1], <<"4">>), KV(names.frame_size[1], <<"5">>),
      KV(names.field_of_view[1], <<"6">>), KV(names.dwell_time[1], <<"1">>)>>

CycleTexts == {<<"2">>, <<"many">>}

\* headers of both generations with every imaging parameter, with a number
\* of cycles that is no number, and with no imaging parameters
CallFiles ==
    {<<Sec("GLOBAL PARAMETERS"), KV("number of poi", <<"0">>),
       KV("number of miniscans", <<"2">>)>> \o Parameters(property_names_pre2018, c) :
         c \in CycleTexts}
        \cup {<<Sec("LOGIN"), KV("Software Version", Quoted("2.3.1")),
                Sec("IMAGING MODES"), KV("Volume Imaging", <<"FALSE">>),
                KV("Functional Imaging", <<"TRUE">>), Sec("FUNCTIONAL IMAGING"),
                KV("Functional Mode", Quoted("Patch")),
                KV("Number of miniscans", <<"2">>)>>
                  \o Parameters(property_names_231, c)
                  \o <<Sec("Intertrial FIFO Times")>> \o Rows("rising", MaxRows) :
                  c \in CycleTexts}
        \cup {<<Sec("LOGIN"), KV("Software Version", Quoted("2.3.1")),
                Sec("IMAGING MODES"), KV("Volume Imaging", <<"TRUE">>),
                KV("Functional Imaging", <<"FALSE">>),
                Sec("Intertrial FIFO Times")>> \o Rows("rising", MaxRows)}

\* the sections asked for by item lookup: one of each generation
Items == {Section("GLOBAL PARAMETERS"), Section("IMAGING MODES")}

NoItem == <<>>

Operations ==
    {<<op, NoItem>> : op \in {"version", "imaging_mode", "get_imaging_information",
                              "determine_trial_times", "get_raw_fields"}}
        \cup {<<"getitem", item>> : item \in Items}

NotCalled == [n |-> 0, first |-> NoCall, latest |-> NoCall]

InitCalls ==
    /\ file \in CallFiles
    /\ hdr = NotLoaded
    /\ call = NoCall
    /\ speed = NoSpeed
    /\ epochs = NoEpochs
    /\ tin = NoTimingInput
    /\ tout = NoTimingOutput
    /\ rois = NoRois
    /\ nwb = NoNwb
    /\ sess = [status |-> "calls", seen |-> [k \in Operations |-> NotCalled]]

\* one call on the header object: the object it leaves is the header, what
\* it returns is the result of the call
Called(k, outcome) ==
    /\ hdr.status = "ok"
    /\ sess.seen[k].n < MaxCalls
    /\ hdr' = outcome.self
    /\ call' = outcome.result
    /\ sess' = [sess EXCEPT
                  !.seen[k] = [n |-> @.n + 1,
                               first |-> IF @.n = 0 THEN outcome.result ELSE @.first,
                               latest |-> outcome.result]]
    /\ UNCHANGED <<file, speed, epochs, tin, tout, rois, nwb>>

CallVersion == Called(<<"version", NoItem>>, Outcome(hdr, CallResult("version", "", hdr.version)))

CallImagingMode ==
    Called(<<"imaging_mode", NoItem>>,
           Outcome(hdr, CallResult("imaging_mode", "", hdr.imaging_mode)))

CallGetItem == \E item \in Items : Called(<<"getitem", item>>, getitem(hdr, item))

CallGetImagingInformation ==
    Called(<<"get_imaging_information", NoItem>>, get_imaging_information(hdr))

CallDetermineTrialTimes ==
    Called(<<"determine_trial_times", NoItem>>, Outcome(hdr, determine_trial_times(hdr)))

CallGetRawFields ==
    Called(<<"get_raw_fields", NoItem>>,
           Outcome(hdr, CallResult("get_raw_fields", "", hdr.raw_fields)))

NextCalls ==
    \/ FromFile
    \/ CallVersion
    \/ CallImagingMode
    \/ CallGetItem
    \/ CallGetImagingInformation
    \/ CallDetermineTrialTimes
    \/ CallGetRawFields

SpecCalls == InitCalls /\ [][NextCalls]_vars

\* a call leaves the raw triples and the parsed sections as they were
HeaderUntouched ==
    hdr.status = "ok" =>
        /\ hdr'.raw_fields = hdr.raw_fields
        /\ hdr'.sections = hdr.sections
        /\ hdr'.trial_times = hdr.trial_times

\* the latest call of each operation returned what its first call returned
RepeatedCallsAgree ==
    sess.status = "calls" =>
        \A k \in Operations : sess.seen[k].n > 0 => sess.seen[k].latest = sess.seen[k].first

\* C17: once a header object is constructed, any sequence of calls of
\* version, imaging_mode, item lookup, get_imaging_information,
\* determine_trial_times and get_raw_fields leaves the raw (section, key,
\* text) triples and the parsed sections unchanged, and repeated calls of
\* the same operation return equal results.
C17_CallsLeaveHeader == [](RepeatedCallsAgree) /\ [][HeaderUntouched]_vars

\* every operation was called more than once on a 2.3.1 header, the calls
\* of get_imaging_information and determine_trial_times returning values
C17_Witness ==
    /\ sess.status = "calls"
    /\ hdr.status = "ok"
    /\ hdr.version = "v231"
    /\ \A k \in Operations : sess.seen[k].n >= 2
    /\ sess.seen[<<"get_imaging_information", NoItem>>].first.err = ""
    /\ sess.seen[<<"determine_trial_times", NoItem>>].first.err = ""
    /\ sess.seen[<<"determine_trial_times", NoItem>>].first.value # <<>>
    /\ call.op = "getitem"

(***************************************************************************)
(* SpecFolder: the steps that read a file of the LabView folder, on a      *)
(* folder that may lack any of its files.  nwb.present is the set of the   *)
(* files of the folder that exist, ROI.dat aside: that one is rois.table.  *)
(***************************************************************************)
HeaderName == "Experiment Header.ini"

TimingsNamePre2018 == "Single cycle relative times.txt"

TimingsName231 == "Single cycle relative times_HW.txt"

FolderNames == {HeaderName, TimingsNamePre2018, TimingsName231}

\* a header of each generation with its imaging parameters
FolderHeaders == {f \in CallFiles : get_imaging_information(from_file(f)).result.err = ""}

\* the lines parsed whether or not the file is there
from_file_unopened(present, lines) == from_file(lines)

\* open(filename, 'r') and the parse, header.py:24-67
from_file_in(present, lines) ==
    IF HeaderName \notin present
    THEN NoHeader("FileNotFoundError", "none", 0)
    ELSE from_file(lines)

\* ROI.dat as pd.read_csv(roi_path, sep='\t', dtype=np.float64) gives it,
\* timings.py:19
TimingRoiData(table) ==
    [i \in 1..Len(table.rows) |->
        [x_start |-> table.rows[i].x_start, x_stop |-> table.rows[i].x_stop,
         y_start |-> table.rows[i].y_start, y_stop |-> table.rows[i].y_stop,
         angle |-> table.rows[i].angle_deg]]

\* self.labview_version, nwb_file.py:76 and 356
LabViewVersion(h) == IF h.status = "ok" THEN h.version ELSE "None"

\* the timing file of a session: a row for each line of each ROI (legacy),
\* or the line times of every cycle of every trial the header tells of
TimingInput(table, h) ==
    LET roi_data == TimingRoiData(table)
        geo == read_roi_data(roi_data)
        info == get_imaging_information(h).result.value
        n_trials == Len(determine_trial_times(h).value)
    IN  IF h.version = "pre2018"
        THEN [kind |-> "pre2018", missing |-> 0, rows |-> LegacyRows(roi_data, 0),
              roi_data |-> roi_data, dwell_time |-> info.dwell_time.n]
        ELSE [kind |-> "v231", base |-> 1, trials |-> n_trials, padding |-> "none",
              column |-> Flatten(1, n_trials, info.cycles_per_trial,
                                 geo.n_rois, geo.n_lines_per_roi),
              roi_data |-> roi_data, dwell_time |-> info.dwell_time.n,
              n_cycles_per_trial |-> info.cycles_per_trial, n_trials |-> n_trials]

\* NwbFile.read_cycle_relative_times, nwb_file.py:593-626
read_cycle_relative_times(present, table, h) ==
    IF table.status # "file" THEN TimingFailure("AssertionError")
    ELSE IF LabViewVersion(h) = "pre2018"
    THEN IF TimingsNamePre2018 \notin present THEN TimingFailure("AssertionError")
         ELSE LabViewTimingsPre2018(TimingInput(table, h))
    ELSE IF LabViewVersion(h) = "v231"
    THEN IF TimingsName231 \notin present THEN TimingFailure("AssertionError")
         ELSE LabViewTimings231(TimingInput(table, h))
    ELSE TimingFailure("ValueError: unsupported version")

FolderTables == {t \in ReaderFiles : t.status = "missing" \/ t.columns = ClassicColumns}

InitFolder ==
    /\ file \in FolderHeaders
    /\ hdr = NotLoaded
    /\ call = NoCall
    /\ speed = NoSpeed
    /\ epochs = NoEpochs
    /\ tin = NoTimingInput
    /\ tout = NoTimingOutput
    /\ rois \in {RoiState(table) : table \in FolderTables}
    /\ nwb \in {[status |-> "folder", present |-> present] : present \in SUBSET FolderNames}
    /\ sess = NoSessions

\* header = LabViewHeader.from_file(rel('Experiment Header.ini')),
\* nwb_file.py:354-356
ParseExperimentHeader ==
    /\ hdr.status = "none"
    /\ hdr' = from_file_in(nwb.present, file)
    /\ UNCHANGED <<file, call, speed, epochs, tin, tout, rois, nwb, sess>>

\* nwb.read_cycle_relative_times(folder_path)
ReadCycleRelativeTimes ==
    /\ tout.status = "none"
    /\ tout' = read_cycle_relative_times(nwb.present, rois.table, hdr)
    /\ UNCHANGED <<file, hdr, call, speed, epochs, tin, rois, nwb, sess>>

NextFolder == ParseExperimentHeader \/ NewReader \/ ReadRoiTable \/ ReadCycleRelativeTimes

SpecFolder == InitFolder /\ [][NextFolder]_vars

\* the timing file read_cycle_relative_times asks for, once the header told
\* the generation
TimingsMissing ==
    \/ LabViewVersion(hdr) = "pre2018" /\ TimingsNamePre2018 \notin nwb.present
    \/ LabViewVersion(hdr) = "v231" /\ TimingsName231 \notin nwb.present

\* what a step on a missing file leaves: an exception, no header and no
\* timings
MissingFileFails ==
    nwb.status = "folder" =>
        /\ (HeaderName \notin nwb.present /\ hdr.status # "none") =>
               /\ hdr.status = "error"
               /\ hdr.err = "FileNotFoundError"
               /\ hdr.raw_fields = <<>>
               /\ hdr.sections = EmptyDict
               /\ hdr.warnings = 0
        /\ (rois.table.status = "missing" /\ rois.out.op = "read_roi_table") =>
               /\ rois.out.err = "AssertionError"
               /\ \A i \in 1..Len(rois.readers) : rois.readers[i].roi_data = NoRoiData
        /\ (rois.table.status = "missing" /\ tout.status # "none") =>
               tout = TimingFailure("AssertionError")

\* read_roi_table on a missing ROI.dat leaves the readers and their
\* mappings as they were; read_cycle_relative_times on a missing timing
\* file fails its assertion
MissingFileLeavesState ==
    nwb.status = "folder" =>
        /\ (rois.table.status = "missing" /\ rois'.out.op = "read_roi_table") =>
               /\ rois'.heap = rois.heap
               /\ rois'.readers = rois.readers
        /\ (TimingsMissing /\ tout' # tout) => tout' = TimingFailure("AssertionError")

\* C18: resolving the header, reading the ROI table and reading the raw
\* timings each end in an exception when the file they read does not exist,
\* before anything of that file is parsed and with no partial result: no
\* header object, no ROI data and no change of the reader, no timings.
C18_MissingFileFails == [](MissingFileFails) /\ [][MissingFileLeavesState]_vars

\* the three steps were taken on a folder with none of the files
C18_Witness ==
    /\ nwb.status = "folder"
    /\ nwb.present = {}
    /\ rois.table.status = "missing"
    /\ hdr.status = "error"
    /\ Len(rois.readers) > 0
    /\ rois.out.op = "read_roi_table"
    /\ tout.status = "error"

(***************************************************************************)
(* SpecNwb: an NwbFile object and the file at nwb_path.  nwb.disk is the   *)
(* file on disk (whether it exists, and the groups it holds), nwb.writes   *)
(* counts the times it was opened for writing, nwb.nwb_file is the         *)
(* in-memory file of the object, nwb.inputs the inputs read so far and     *)
(* nwb.present the files of the LabView folder that exist.                 *)
(***************************************************************************)
MaxWrites == 2    \* times the file at nwb_path is written

\* nwb_file.py:68
Modes == {"r", "r+", "w", "w-", "a"}

SpeedName == "Speed_Data/Speed data 001.txt"

UserConfig == "metadata.yaml"

NoDiskFile == [exists |-> FALSE, content |-> {}]

DiskFile(content) == [exists |-> TRUE, content |-> content]

None == [open |-> FALSE, content |-> {}]

InMemory(content) == [open |-> TRUE, content |-> content]

NwbOut(op, err) == [op |-> op, err |-> err]

\* the object before __init__, beside a file on disk and a LabView folder
NoObject(disk, present, user_known) ==
    [status |-> "session", constructed |-> FALSE, mode |-> "none",
     disk |-> disk, disk0 |-> disk, writes |-> 0, nwb_file |-> None,
     user_metadata |-> FALSE, user |-> FALSE, inputs |-> {},
     present |-> present, user_known |-> user_known, out |-> NwbOut("none", "")]

\* NwbFile.__init__, nwb_file.py:53-78, with open_nwb_file, 158-168
NewNwbFile(n, mode) ==
    IF mode \in {"r", "r+"} \/ (mode = "a" /\ n.disk.exists)
    THEN IF ~n.disk.exists
         THEN [n EXCEPT !.out = NwbOut("__init__", "OSError")]
         ELSE [n EXCEPT !.constructed = TRUE, !.mode = mode,
                        !.nwb_file = InMemory(n.disk.content),
                        !.out = NwbOut("__init__", "")]
    ELSE [n EXCEPT !.constructed = TRUE, !.mode = mode, !.out = NwbOut("__init__", "")]

\* NwbFile._write, nwb_file.py:1133-1135
write(n) == [n EXCEPT !.disk = DiskFile(n.nwb_file.content), !.writes = @ + 1]

\* the test that lets mode 'a' through whether or not the file exists
CreationAllowedAppending(mode, exists) ==
    mode \in {"w", "a"} \/ (mode = "w-" /\ ~exists)

\* nwb_file.py:183-184
CreationAllowed(mode, exists) ==
    mode = "w" \/ (mode \in {"a", "w-"} /\ ~exists)

Failed(n, op, err) == [n EXCEPT !.out = NwbOut(op, err)]

\* NwbFile.read_user_config, nwb_file.py:294-305
read_user_config(n) ==
    [n EXCEPT !.user_metadata = TRUE, !.inputs = @ \cup {UserConfig}]

\* NwbFile.record_metadata, nwb_file.py:369-393: the exception, if any
record_metadata_error(n) ==
    IF ~n.user_metadata THEN "AssertionError"
    ELSE IF ~n.user_known THEN "ValueError"
    ELSE ""

\* NwbFile.create_nwb_file, nwb_file.py:170-207
create_nwb_file(n) ==
    LET op == "create_nwb_file"
        configured == read_user_config(n)
        parsed == [configured EXCEPT !.inputs = @ \cup {HeaderName}]
        recorded == [parsed EXCEPT !.user = TRUE]
        loaded == [recorded EXCEPT !.inputs = @ \cup {SpeedName}]
        created == [loaded EXCEPT !.nwb_file = InMemory({"session", "labview_header"})]
    IN  IF ~CreationAllowed(n.mode, n.disk.exists) THEN Failed(n, op, "ValueError")
        ELSE IF HeaderName \notin n.present THEN Failed(configured, op, "FileNotFoundError")
        ELSE IF record_metadata_error(parsed) # ""
        THEN Failed(parsed, op, record_metadata_error(parsed))
        ELSE IF SpeedName \notin n.present THEN Failed(recorded, op, "AssertionError")
        ELSE Failed(write(created), op, "")

\* NwbFile.add_speed_data, nwb_file.py:465-485
nwb_add_speed_data(n) ==
    IF ~n.nwb_file.open THEN Failed(n, "add_speed_data", "AttributeError")
    ELSE Failed(write([n EXCEPT !.nwb_file.content = @ \cup {"speed_data", "trial_times"}]),
                "add_speed_data", "")

\* NwbFile.add_core_metadata, nwb_file.py:209-230
add_core_metadata(n) ==
    IF ~n.user \/ ~n.nwb_file.open THEN Failed(n, "add_core_metadata", "AttributeError")
    ELSE Failed(write([n EXCEPT !.nwb_file.content = @ \cup {"general"}]),
                "add_core_metadata", "")

\* read_user_config() and record_metadata(user), nwb_file.py:294-305, 369-393
record_metadata(n) ==
    LET configured == read_user_config(n)
    IN  IF record_metadata_error(configured) # ""
        THEN Failed(configured, "record_metadata", record_metadata_error(configured))
        ELSE Failed([configured EXCEPT !.user = TRUE], "record_metadata", "")

\* NwbFile.close, nwb_file.py:278-280
close(n) == Failed([n EXCEPT !.nwb_file = None], "close", "")

\* no file, or one an earlier import created
DiskFiles == {NoDiskFile, DiskFile({"session", "labview_header"})}

InitNwb ==
    /\ file = <<>>
    /\ hdr = NotLoaded
    /\ call = NoCall
    /\ speed = NoSpeed
    /\ epochs = NoEpochs
    /\ tin = NoTimingInput
    /\ tout = NoTimingOutput
    /\ rois = NoRois
    /\ nwb \in {NoObject(disk, present, user_known) :
                   disk \in DiskFiles, present \in SUBSET {HeaderName, SpeedName},
                   user_known \in BOOLEAN}
    /\ sess = NoSessions

\* nwb = NwbFile(nwb_path, mode)
Construct ==
    /\ ~nwb.constructed
    /\ nwb.out.op = "none"
    /\ \E mode \in Modes : nwb' = NewNwbFile(nwb, mode)
    /\ UNCHANGED <<file, hdr, call, speed, epochs, tin, tout, rois, sess>>

\* a call of a public method on the object
NwbCall(after) ==
    /\ nwb.constructed
    /\ after.writes <= MaxWrites
    /\ nwb' = after
    /\ UNCHANGED <<file, hdr, call, speed, epochs, tin, tout, rois, sess>>

CreateNwbFile == NwbCall(create_nwb_file(nwb))

NwbAddSpeedData ==
    /\ "speed_data" \notin nwb.nwb_file.content
    /\ NwbCall(nwb_add_speed_data(nwb))

AddCoreMetadata ==
    /\ "general" \notin nwb.nwb_file.content
    /\ NwbCall(add_core_metadata(nwb))

RecordMetadata == NwbCall(record_metadata(nwb))

Close == NwbCall(close(nwb))

NextNwb ==
    \/ Construct
    \/ CreateNwbFile
    \/ NwbAddSpeedData
    \/ AddCoreMetadata
    \/ RecordMetadata
    \/ Close

SpecNwb == InitNwb /\ [][NextNwb]_vars

\* the step is a call of create_nwb_file
CreateCalled ==
    /\ nwb.status = "session"
    /\ nwb.constructed
    /\ nwb'.out.op = "create_nwb_file"
    /\ nwb' # nwb

\* the combinations of mode and file the claim lets create the file
MayCreate ==
    \/ nwb.mode = "w"
    \/ nwb.mode \in {"a", "w-"} /\ ~nwb.disk.exists

CreationGuarded ==
    CreateCalled =>
        /\ (nwb'.disk # nwb.disk \/ nwb'.writes # nwb.writes) => MayCreate
        /\ ~MayCreate =>
               /\ nwb'.out.err = "ValueError"
               /\ nwb'.inputs = nwb.inputs
               /\ nwb'.disk = nwb.disk
               /\ nwb'.writes = nwb.writes

\* C19: create_nwb_file creates or replaces the file at nwb_path only when
\* the mode is 'w', or the mode is 'a' or 'w-' and no file exists there; in
\* every other combination of mode and file it raises ValueError before it
\* reads any input, and the file on disk is left as it was.
C19_CreationGuarded == [][CreationGuarded]_vars

\* create_nwb_file was refused on an object appending to an existing file
C19_Witness ==
    /\ nwb.status = "session"
    /\ nwb.constructed
    /\ nwb.mode = "a"
    /\ nwb.disk.exists
    /\ nwb.out = NwbOut("create_nwb_file", "ValueError")
    /\ nwb.inputs = {}
    /\ nwb.writes = 0

\* C20: for an NwbFile opened in mode 'r', no sequence of calls of its
\* public methods creates, replaces or modifies the file at nwb_path.
C20_ReadOnlyUntouched ==
    (nwb.status = "session" /\ nwb.constructed /\ nwb.mode = "r") =>
        /\ nwb.disk = nwb.disk0
        /\ nwb.writes = 0

(***************************************************************************)
(* SpecMetadata: NwbFile.create_from_metadata on a metadata file.  The     *)
(* file is a record: the users under 'sessions', those of them with a      *)
(* 'start_time', the 'last_session' key ("" when the file has none) and    *)
(* the users under 'people'.  The user argument is "" for None.            *)
(***************************************************************************)
MetaUsers == {"A", "B"}

UserArguments == {"", "A", "Mr Faker"}

NoMetaFile == [exists |-> FALSE, sessions |-> {}, start_time |-> {}, last_session |-> "",
               people |-> {}]

MetaFile(sessions, start_time, last_session, people) ==
    [exists |-> TRUE, sessions |-> sessions, start_time |-> start_time,
     last_session |-> last_session, people |-> people]

MetaFiles ==
    {NoMetaFile}
        \cup {MetaFile(sessions, start_time, last_session, people) :
                  sessions \in SUBSET MetaUsers, start_time \in SUBSET MetaUsers,
                  last_session \in {"", "A"}, people \in {{}, {"A"}, MetaUsers}}

MetaOut(op, err, message) == [op |-> op, err |-> err, message |-> message]

\* NwbFile.record_metadata(user) on the metadata of a file,
\* nwb_file.py:369-393: the exception, if any, and the user recorded
record_metadata_of(meta, user) ==
    LET found == IF user \in meta.sessions THEN user ELSE meta.last_session
    IN  IF user \notin meta.sessions /\ meta.last_session = ""
        THEN [err |-> "ValueError", message |-> "No session information found for user",
              user |-> ""]
        ELSE IF found \notin meta.people
        THEN [err |-> "ValueError", message |-> "No information found for user", user |-> ""]
        ELSE IF found \notin meta.sessions
        THEN [err |-> "KeyError", message |-> found, user |-> found]
        ELSE [err |-> "", message |-> "", user |-> found]

\* NwbFile.create_from_metadata, nwb_file.py:102-141
create_from_metadata(n, user) ==
    LET op == "create_from_metadata"
        meta == n.meta
        chosen == IF user = "" THEN CHOOSE u \in meta.sessions : TRUE ELSE user
        recorded == record_metadata_of(meta, chosen)
    IN  IF n.mode # "w" THEN [n EXCEPT !.out = MetaOut(op, "AssertionError", "")]
        ELSE IF ~meta.exists
        THEN [n EXCEPT !.out = MetaOut(op, "ValueError", "Could not find file")]
        ELSE IF meta.sessions = {}
        THEN [n EXCEPT !.out = MetaOut(op, "ValueError", "No sessions found in file!")]
        ELSE IF user = "" /\ Cardinality(meta.sessions) > 1
        THEN [n EXCEPT !.out = MetaOut(op, "ValueError", "Multiple users found in file.")]
        ELSE IF recorded.err # ""
        THEN [n EXCEPT !.user = recorded.user,
                       !.out = MetaOut(op, recorded.err, recorded.message)]
        ELSE IF chosen \notin meta.sessions \/ chosen \notin meta.start_time
        THEN [n EXCEPT !.user = recorded.user,
                       !.out = MetaOut(op, "ValueError", "Start time for session not found!")]
        ELSE [n EXCEPT !.user = recorded.user,
                       !.nwb_file = InMemory({"session", "general", "silverlab_metadata"}),
                       !.disk = DiskFile({"session", "general", "silverlab_metadata"}),
                       !.writes = 2,
                       !.out = MetaOut(op, "", "")]

InitMetadata ==
    /\ file = <<>>
    /\ hdr = NotLoaded
    /\ call = NoCall
    /\ speed = NoSpeed
    /\ epochs = NoEpochs
    /\ tin = NoTimingInput
    /\ tout = NoTimingOutput
    /\ rois = NoRois
    /\ nwb \in {[status |-> "metadata", meta |-> meta, mode |-> mode, argument |-> "",
                 user |-> "", nwb_file |-> None, disk |-> NoDiskFile, writes |-> 0,
                 out |-> MetaOut("none", "", "")] :
                   meta \in {m \in MetaFiles : m.start_time \subseteq m.sessions},
                   mode \in {"w", "a"}}
    /\ sess = NoSessions

\* nwb.create_from_metadata(metadata_file, user)
CreateFromMetadata ==
    /\ nwb.out.op = "none"
    /\ \E user \in UserArguments :
          nwb' = [create_from_metadata(nwb, user) EXCEPT !.argument = user]
    /\ UNCHANGED <<file, hdr, call, speed, epochs, tin, tout, rois, sess>>

NextMetadata == CreateFromMetadata

SpecMetadata == InitMetadata /\ [][NextMetadata]_vars

\* C21: for any metadata file, create_from_metadata called with an explicit
\* user that has no entry under the file's sessions fails with a ValueError
\* whose message contains 'No session information found for user', and no
\* NWB file is written; it does not go on to, or fail in, a later step such
\* as the start-time lookup.
C21_UnknownUserFails ==
    (/\ nwb.status = "metadata"
     /\ nwb.mode = "w"
     /\ nwb.meta.exists
     /\ nwb.out.op = "create_from_metadata"
     /\ nwb.argument # ""
     /\ nwb.argument \notin nwb.meta.sessions) =>
        /\ nwb.out.err = "ValueError"
        /\ nwb.out.message = "No session information found for user"
        /\ nwb.writes = 0
        /\ ~nwb.disk.exists
        /\ nwb.user = ""

(***************************************************************************)
(* SpecVariable: the 2.3.1 reconstructor on an ROI table whose rows have   *)
(* line counts of their own.  The timing column has a row for each line of *)
(* each ROI of each cycle of each trial, in that order; the time of a line *)
(* is its position in the column.                                          *)
(***************************************************************************)
\* a row of lines lines and pixels pixels per line, turned by angle
VariableRow(lines, pixels, angle) ==
    IF angle = 0
    THEN [x_start |-> 0, x_stop |-> pixels, y_start |-> 0, y_stop |-> lines, angle |-> angle]
    ELSE [x_start |-> 0, x_stop |-> lines, y_start |-> 0, y_stop |-> pixels, angle |-> angle]

VariableTables ==
    {[i \in 1..n |-> VariableRow(lines[i], pixels, angle)] :
         n \in {2, MaxRois + 1},
         lines \in [1..(MaxRois + 1) -> 1..MaxExtent],
         pixels \in {1, MaxExtent}, angle \in {0, 90}}

\* the line count written in row i of the table
LinesOfRow(roi_data, i) ==
    IF roi_data[i].angle = 0
    THEN roi_data[i].y_stop - roi_data[i].y_start
    ELSE roi_data[i].x_stop - roi_data[i].x_start

\* the lines of the first n ROIs
RECURSIVE LinesBefore(_, _)
LinesBefore(roi_data, n) ==
    IF n = 0 THEN 0 ELSE LinesBefore(roi_data, n - 1) + LinesOfRow(roi_data, n)

VariableInputs ==
    {[kind |-> "v231",
      column |-> [i \in 1..(T * C * LinesBefore(table, Len(table))) |-> i],
      roi_data |-> table, dwell_time |-> 1, n_cycles_per_trial |-> C, n_trials |-> T] :
         table \in VariableTables, C \in {1, MaxCycles}, T \in {1, MaxTrials}}

InitVariable ==
    /\ file = <<>>
    /\ hdr = NotLoaded
    /\ call = NoCall
    /\ speed = NoSpeed
    /\ epochs = NoEpochs
    /\ tin \in VariableInputs
    /\ tout = NoTimingOutput
    /\ rois = NoRois
    /\ nwb = NoNwb
    /\ sess = NoSessions

NextVariable == NewTimings231

SpecVariable == InitVariable /\ [][NextVariable]_vars

\* the slice of ROI r (from 0) in global cycle k (from 0) starts at flat
\* index start and has length len
SliceIs(r, k, start, len) ==
    LET lines == tout.pixel_time_offsets[r][k + 1]
    IN  /\ Len(lines) = len
        /\ \A l \in 1..len :
               \A p \in 1..Len(lines[l]) :
                   lines[l][p] = read_relative_times_file_231(tin.column)[start + l]
                                     + (p - 1) * tin.dwell_time

InsertZero(column, pos) == SubSeq(column, 1, pos) \o <<0>> \o SubSeq(column, pos + 1, Len(column))

\* the places zero-valued rows are put in at: before the first row, after
\* the first, in the middle, before the last and after the last
ZeroPositions(column) ==
    {pos \in {0, 1, Len(column) \div 2, Len(column) - 1, Len(column)} :
        pos >= 0 /\ pos <= Len(column)}

\* the columns made of the column of the file by putting in one or two
\* zero-valued rows
WithZeros(column) ==
    {InsertZero(column, pos) : pos \in ZeroPositions(column)}
        \cup {InsertZero(InsertZero(column, pos), other) :
                  pos \in ZeroPositions(column), other \in ZeroPositions(column)}

\* what the reconstructor returns is the same with zero-valued rows put in
ZerosIgnored ==
    (tin.kind = "v231" /\ tout.status # "none") =>
        \A column \in WithZeros(tin.column) :
            LabViewTimings231([tin EXCEPT !.column = column]) = tout

\* the ROI table gives lines and pixels to reshape to
GeometryUsable ==
    LET geo == read_roi_data(tin.roi_data)
    IN  geo.err = "" /\ geo.n_lines_per_roi > 0 /\ geo.n_pixels_per_line > 0

\* every line time of the recording is in the tensors at its place
LineTimesRetained ==
    (tin.kind = "v231" /\ tout.status # "none" /\ tin.trials = tin.n_trials /\ GeometryUsable) =>
        /\ tout.status = "ok"
        /\ \A r \in 0..(tout.n_rois - 1) :
               \A k \in 1..(tin.n_trials * tin.n_cycles_per_trial) :
                   \A l \in 1..tout.n_lines_per_roi :
                       tout.pixel_time_offsets[r][k][l][1] =
                           LineTime(tin.base, (k - 1) \div tin.n_cycles_per_trial,
                                    (k - 1) % tin.n_cycles_per_trial, r, l - 1,
                                    tout.n_rois, tout.n_lines_per_roi)

\* C23: in the 2.3.1 raw-timing read zero-valued rows are padding, removed
\* before reshaping: the tensors and cycle_time are unchanged when zero-valued
\* rows are put in at any positions of the column, and every genuine line
\* time of the recording is retained at its (trial, cycle, ROI, line) place.
C23_ZeroRowsArePadding == ZerosIgnored /\ LineTimesRetained

\* no line of the recording has the time zero
NoZeroLineTime == tin.kind = "v231" => tin.base > 0

\* C23, amended: the same, the line times being retained when none of them
\* is zero.
C23_ZeroRowsArePaddingOfNonZeroTimes == ZerosIgnored /\ (NoZeroLineTime => LineTimesRetained)

\* tensors were returned for a padded file of two trials of two cycles of
\* two ROIs of two lines
C23_Witness ==
    /\ tin.kind = "v231"
    /\ tout.status = "ok"
    /\ tin.padding = "inside"
    /\ tin.base > 0
    /\ tin.trials = 2
    /\ tin.n_trials = 2
    /\ tin.n_cycles_per_trial = 2
    /\ tout.n_rois = 2
    /\ tout.n_lines_per_roi = 2

\* the falls of the counter within the signal
Falls(counter) == Cardinality({k \in 2..Len(counter) : counter[k] < counter[k - 1]})

\* the detection ran on a signal that ends within a trial: the start of the
\* signal and the falls, taken in pairs, leave the last trial open
OpenFinalTrial ==
    /\ epochs.pc \in {"done", "failed"}
    /\ Falls(speed.file.counter) % 2 = 0

\* the times of the samples of the signal
SignalTimes == {speed.trial_times.timestamps[i] : i \in 1..Len(speed.trial_times.timestamps)}

\* the final interval is reported
FinalIntervalReported ==
    OpenFinalTrial => epochs.num_trials = Falls(speed.file.counter) \div 2 + 1

\* C24: in the legacy reset detection, if the counter signal ends without a
\* closing reset for the final trial, the final interval is still reported
\* and its end is the unresolved value left for the caller to fill, not a
\* time taken from the signal; all earlier intervals are resolved.
C24_FinalEndUnresolved ==
    /\ FinalIntervalReported
    /\ (OpenFinalTrial /\ epochs.pc = "done") =>
           /\ epochs.trials[Len(epochs.trials)].stop \notin SignalTimes
           /\ \A i \in 1..(Len(epochs.trials) - 1) : epochs.trials[i].stop \in SignalTimes

\* C24, amended: the final interval is still reported and its end is the
\* time of the last sample of the signal; every interval has an end taken
\* from the signal.
C24_FinalEndIsLastSample ==
    /\ FinalIntervalReported
    /\ OpenFinalTrial =>
           LET epoch_times == EpochTimes(speed.trial_times)
               last == speed.trial_times.timestamps[Len(speed.trial_times.timestamps)]
           IN  /\ Len(epoch_times) = epochs.num_trials
               /\ epoch_times[Len(epoch_times)].stop = last
               /\ \A i \in 1..Len(epoch_times) : epoch_times[i].stop \in SignalTimes
               /\ epochs.pc = "done" =>
                      /\ Len(epochs.trials) = epochs.num_trials
                      /\ epochs.trials[Len(epochs.trials)].stop = last

\* epochs were made of a signal of two trials, the second left open
C24_Witness ==
    /\ epochs.pc = "done"
    /\ Falls(speed.file.counter) = 2
    /\ epochs.num_trials = 2
    /\ Len(epochs.trials) = 2

(***************************************************************************)
(* NwbFile.determine_trial_times for a 2.3.1 session (nwb_file.py:535-558) *)
(* on the intervals parse_experiment_header_ini stored in self.trial_times *)
(* (nwb_file.py:361-362, 395-396).  The speed data is looked up           *)
(* (nwb_file.py:516) and linked to each epoch; no time is read from it.    *)
(***************************************************************************)
\* nwb_file.py:547-557 on the intervals of the header, from interval i on:
\* 'stop_time > start_time' with stop_time None is a TypeError
RECURSIVE AddHeaderEpochs(_, _)
AddHeaderEpochs(epoch_times, i) ==
    IF i > Len(epoch_times) THEN [err |-> "", trials |-> <<>>]
    ELSE IF ~epoch_times[i].resolved THEN [err |-> "TypeError", trials |-> <<>>]
    ELSE IF ~(epoch_times[i].end > epoch_times[i].start /\ epoch_times[i].start >= 0)
    THEN [err |-> "AssertionError", trials |-> <<>>]
    ELSE LET rest == AddHeaderEpochs(epoch_times, i + 1)
         IN  [err |-> rest.err,
              trials |-> <<[start |-> epoch_times[i].start, stop |-> epoch_times[i].end]>>
                             \o rest.trials]

\* NwbFile.determine_trial_times for LabViewVersions.v231,
\* nwb_file.py:535-558
determine_trial_times_v231(speed_data, trial_times) ==
    LET added == IF speed_data = <<>>
                 THEN [err |-> "KeyError", trials |-> <<>>]
                 ELSE AddHeaderEpochs(trial_times, 1)
    IN  [pc |-> IF added.err = "" THEN "done" ELSE "failed",
         err |-> added.err,
         num_trials |-> Len(trial_times),
         trials |-> added.trials,
         written |-> added.err = ""]

InitTrialEpochs ==
    /\ file \in TimedFiles
    /\ hdr = NotLoaded
    /\ call = NoCall
    /\ speed \in {[file |-> f, trial_times |-> <<>>] : f \in SpeedFilesOf(1) \cup SpeedFilesOf(2)}
    /\ epochs = NoEpochs
    /\ tin = NoTimingInput
    /\ tout = NoTimingOutput
    /\ rois = NoRois
    /\ nwb = NoNwb
    /\ sess = NoSessions

\* nwb.determine_trial_times() after parse_experiment_header_ini
DetermineTrialTimesFromIntervals ==
    /\ hdr.status = "ok"
    /\ hdr.version = "v231"
    /\ call.op = "determine_trial_times"
    /\ call.err = ""
    /\ epochs.pc = "idle"
    /\ epochs' = determine_trial_times_v231(speed.trial_times, call.value)
    /\ UNCHANGED <<file, hdr, call, speed, tin, tout, rois, nwb, sess>>

NextTrialEpochs ==
    FromFile \/ DetermineTrialTimes \/ AddSpeedData \/ DetermineTrialTimesFromIntervals

SpecTrialEpochs == InitTrialEpochs /\ [][NextTrialEpochs]_vars

\* the header gave intervals of which the last has no end
FinalEndUnresolved ==
    /\ call.op = "determine_trial_times"
    /\ call.err = ""
    /\ Len(call.value) > 0
    /\ ~call.value[Len(call.value)].resolved

\* C25: when a 2.3.1 header yields a final interval whose end is unresolved,
\* NwbFile.determine_trial_times derives that end from the speed signal: it
\* completes without error and creates exactly one epoch and one trial row
\* per header interval, each with stop > start >= 0.
C25_UnresolvedEndDerived ==
    (FinalEndUnresolved /\ speed.trial_times # <<>> /\ epochs.pc \in {"done", "failed"}) =>
        /\ epochs.pc = "done"
        /\ Len(epochs.trials) = Len(call.value)
        /\ \A i \in 1..Len(epochs.trials) :
               epochs.trials[i].stop > epochs.trials[i].start /\ epochs.trials[i].start >= 0

(***************************************************************************)
(* One run of NwbFile.import_labview_folder (nwb_file.py:80-100): the      *)
(* calls of create_nwb_file and import_labview_data in the order of the    *)
(* code, one action per call.  nwb.log is the sequence of the reads and    *)
(* computations done so far, nwb.defined the attributes of the object that *)
(* have been assigned, nwb.early the attributes a step read before they    *)
(* were assigned.  A step that raises ends the run.                        *)
(***************************************************************************)
RoiFileName == "ROI.dat"

ImportNames == {HeaderName, SpeedName, RoiFileName, TimingsNamePre2018, TimingsName231}

\* the lists header.determine_trial_times() gives for the headers of the runs
ImportIntervals ==
    {<<Interval(1, 2)>>, <<Interval(1, 2), OpenInterval(3)>>, <<Interval(2, 1)>>}

\* the reconstruction without its read of the ROI file
TimingEventsWithoutRois == <<"read_relative_times_file", "format_pixel_time_offsets">>

\* LabViewTimings.__init__, timings.py:9-12, and the subclass __init__,
\* timings.py:43-45 and 66-68: the relative times file, the ROI file, the
\* reshaping
TimingEvents == <<"read_relative_times_file", "read_roi_data", "format_pixel_time_offsets">>

\* a step that has run: what it read, what it did, what it assigned
Step(n, reads, events, writes, after) ==
    [n EXCEPT !.pc = after,
              !.log = @ \o events,
              !.early = @ \cup (reads \ n.defined),
              !.defined = @ \cup writes]

\* a step that raised
StepFailed(n, reads, events, writes, err) ==
    [Step(n, reads, events, writes, "failed") EXCEPT !.err = err]

\* create_nwb_file, nwb_file.py:170-207, for an object opened with 'w'
import_create_nwb_file(n) ==
    IF HeaderName \notin n.present THEN StepFailed(n, {}, <<>>, {}, "FileNotFoundError")
    ELSE LET events == <<"parse_experiment_header_ini">>
                           \o (IF n.version = "v231"
                               THEN <<"determine_trial_times_from_header">> ELSE <<>>)
             writes == {"labview_version", "mode", "imaging_info"}
                           \cup (IF n.version = "v231" THEN {"trial_times"} ELSE {})
         IN  IF SpeedName \notin n.present
             THEN StepFailed(n, {}, events, writes, "FileNotFoundError")
             ELSE Step(n, {}, events, writes \cup {"nwb_file"}, "created")

\* determine_trial_times, nwb_file.py:504-558
import_determine_trial_times(n) ==
    LET made == IF n.version = "pre2018"
                THEN determine_trial_times_pre2018(add_speed_data(n.speed_file))
                ELSE determine_trial_times_v231(add_speed_data(n.speed_file), n.intervals)
        reads == {"nwb_file", "labview_version", "speed_data"}
                     \cup (IF n.version = "v231" THEN {"trial_times"} ELSE {})
    IN  IF made.err # "" THEN StepFailed(n, reads, <<"determine_trial_times">>, {}, made.err)
        ELSE Step(n, reads, <<"determine_trial_times">>, {"epochs"}, "trials")

\* read_cycle_relative_times, nwb_file.py:593-626
import_read_cycle_relative_times(n) ==
    LET reads == {"labview_version", "imaging_info"}
                     \cup (IF n.version = "v231" THEN {"trial_times"} ELSE {})
        name == IF n.version = "pre2018" THEN TimingsNamePre2018 ELSE TimingsName231
    IN  IF RoiFileName \notin n.present
        THEN StepFailed(n, {}, <<>>, {}, "AssertionError")
        ELSE IF name \notin n.present
        THEN StepFailed(n, {"labview_version"}, <<>>, {}, "AssertionError")
        ELSE IF ~n.reshapes
        THEN StepFailed(n, reads, TimingEvents, {}, "ValueError")
        ELSE Step(n, reads, TimingEvents, {"raw_pixel_time_offsets", "cycle_time"}, "timings")

\* add_rois, nwb_file.py:954-1054
import_add_rois(n) ==
    IF RoiFileName \notin n.present THEN StepFailed(n, {}, <<>>, {}, "AssertionError")
    ELSE Step(n, {"nwb_file", "mode", "zplanes"}, <<"add_rois">>, {"roi_mapping"}, "rois")

InitImport ==
    /\ file = <<>>
    /\ hdr = NotLoaded
    /\ call = NoCall
    /\ speed = NoSpeed
    /\ epochs = NoEpochs
    /\ tin = NoTimingInput
    /\ tout = NoTimingOutput
    /\ rois = NoRois
    /\ sess = NoSessions
    /\ nwb \in {[status |-> "import", version |-> version, intervals |-> intervals,
                 speed_file |-> f, present |-> present, reshapes |-> reshapes,
                 pc |-> "start", log |-> <<>>, defined |-> {}, early |-> {}, err |-> ""] :
                    version \in {"pre2018", "v231"}, intervals \in ImportIntervals,
                    f \in SpeedFilesOf(2), present \in SUBSET ImportNames,
                    reshapes \in BOOLEAN}

ImportStep(at, next) ==
    /\ nwb.pc = at
    /\ nwb' = next
    /\ UNCHANGED <<file, hdr, call, speed, epochs, tin, tout, rois, sess>>

\* speed_data, expt_start_time = self.create_nwb_file(folder_path, session_id)
ImportCreateNwbFile == ImportStep("start", import_create_nwb_file(nwb))

\* self.add_core_metadata(), nwb_file.py:209-230
ImportAddCoreMetadata ==
    ImportStep("created", Step(nwb, {"nwb_file"}, <<>>, {}, "core"))

\* self.add_speed_data(speed_data, expt_start_time), nwb_file.py:465-485
ImportAddSpeedData ==
    ImportStep("core", Step(nwb, {"nwb_file"}, <<>>, {"speed_data"}, "speed"))

\* self.determine_trial_times()
ImportDetermineTrialTimes == ImportStep("speed", import_determine_trial_times(nwb))

\* self.add_stimulus(), nwb_file.py:560-591
ImportAddStimulus ==
    ImportStep("trials", Step(nwb, {"nwb_file", "epochs"}, <<>>, {}, "stimulus"))

\* self.read_cycle_relative_times(folder_path)
ImportReadCycleRelativeTimes ==
    ImportStep("stimulus", import_read_cycle_relative_times(nwb))

\* self.read_zplane(...) and self.read_zstack(...), nwb_file.py:856-952
ImportReadZ ==
    ImportStep("timings",
               Step(nwb, {"nwb_file", "imaging_info", "cycle_time"}, <<>>, {"zplanes"}, "z"))

\* self.add_rois(rel('ROI.dat'))
ImportAddRois == ImportStep("z", import_add_rois(nwb))

\* self.read_functional_data(...), nwb_file.py:628-758
ImportReadFunctionalData ==
    ImportStep("rois",
               Step(nwb, {"nwb_file", "imaging_info", "cycle_time", "roi_mapping",
                          "raw_pixel_time_offsets", "epochs"}, <<>>, {}, "done"))

NextImport ==
    \/ ImportCreateNwbFile
    \/ ImportAddCoreMetadata
    \/ ImportAddSpeedData
    \/ ImportDetermineTrialTimes
    \/ ImportAddStimulus
    \/ ImportReadCycleRelativeTimes
    \/ ImportReadZ
    \/ ImportAddRois
    \/ ImportReadFunctionalData

SpecImport == InitImport /\ [][NextImport]_vars

\* the core step an entry of the log belongs to
CoreStep(event) ==
    IF event = "parse_experiment_header_ini" THEN "header"
    ELSE IF event \in {"read_roi_data", "add_rois"} THEN "roi"
    ELSE IF event = "determine_trial_times" THEN "trials"
    ELSE IF event = "format_pixel_time_offsets" THEN "timing"
    ELSE "other"

IsCore(event) == CoreStep(event) # "other"

\* the core steps of the run so far, in the order they ran
CoreLog == [i \in 1..Len(SelectSeq(nwb.log, IsCore)) |-> CoreStep(SelectSeq(nwb.log, IsCore)[i])]

IsPrefix(s, t) == Len(s) <= Len(t) /\ \A i \in 1..Len(s) : s[i] = t[i]

\* no step read an attribute before it was assigned
NothingReadEarly == nwb.early = {}

LineClass(raw) ==
    LET line == strip(raw)
    IN  IF Len(line) = 0 THEN "blank"
        ELSE IF line[1] = "[" THEN "section"
        ELSE IF Contains(line, "=") THEN "key/value"
        ELSE IF Contains(line, "\t") THEN "tab"
        ELSE "unrecognised"

LinesOfClass(lines, class) == Cardinality({i \in 1..Len(lines) : LineClass(lines[i]) = class})

\* C27: the line loop reaches the end of input for every sequence of lines;
\* each key/value line (also one with an empty value, one whose value
\* contains '=', one before any section opener) adds exactly one raw triple
\* and one parsed entry, and each tab row adds one raw triple.
C27_LineLoopTotal ==
    hdr.status # "none" =>
        /\ ParseFile(file).err = ""
        /\ Len(ParseFile(file).fields) =
               LinesOfClass(file, "key/value") + LinesOfClass(file, "tab")
        /\ hdr.status = "ok" => Len(hdr.raw_fields) = Len(ParseFile(file).fields)

(***************************************************************************)
(* The size of an ROI as the pixel-timing reconstructor takes it from      *)
(* ROI.dat and as the reader of the same file returns it.  SpecSizes is    *)
(* SpecGeometry on files that also have ROIs of no extent and tables       *)
(* whose rows are all alike.                                               *)
(***************************************************************************)
SizeFiles ==
    GeometryFiles
        \cup {RoiFile(ClassicColumns, [i \in 1..n |-> RoiTableRow(x, y, angle)]) :
                  x \in Spans, y \in {<<0, 2>>, <<1, 1>>, <<3, 1>>}, angle \in {0, 90},
                  n \in {1, MaxRoiRows}}

InitSizes == InitRoisWith(SizeFiles)

SpecSizes == InitSizes /\ [][NextGeometry]_vars

\* what the reconstructor takes from the file the reader was given
TimingGeometry == read_roi_data(TimingRoiData(rois.table))

\* the rows of the file itself: the first one and the one asked about
FirstFileRow == rois.table.rows[1]

AskedFileRow == rois.table.rows[rois.out.roi_number + 1]

\* the sizes agree
SizesAgree ==
    /\ rois.out.err = ""
    /\ TimingGeometry.err = ""
    /\ rois.out.value = <<TimingGeometry.n_lines_per_roi, TimingGeometry.n_pixels_per_line>>

PlainRoi ==
    /\ \A name \in Coordinates \cup {"angle_deg"} : AskedFileRow[name] = FirstFileRow[name]
    /\ \A name \in Coordinates : Float16(AskedFileRow[name]) = AskedFileRow[name]
    /\ AskedFileRow.x_stop >= AskedFileRow.x_start
    /\ AskedFileRow.y_stop >= AskedFileRow.y_start

\* the header says pointing exactly when the first ROI has no extent
ModeAsExtents ==
    (AskedReader.imaging_mode = "pointing")
        <=> (FirstFileRow.x_stop = FirstFileRow.x_start /\ FirstFileRow.y_stop = FirstFileRow.y_start)

C28_WitnessPointing ==
    /\ AskedAnRoi
    /\ PlainRoi
    /\ ModeAsExtents
    /\ AskedReader.imaging_mode = "pointing"
    /\ rois.out.value = <<1, 1>>

(***************************************************************************)
(* The raw record and the parsed sections of a header.  SpecReopened is    *)
(* SpecHeader on pre-2018 files in which a key is given twice and a        *)
(* section is opened twice.                                                *)
(***************************************************************************)
ReopenedFirstBlocks ==
    {<<Sec("GLOBAL PARAMETERS"), KV("number of poi", a)>> \o more :
         a \in CounterTexts,
         more \in {<<>>, <<KV("frame size", <<"7">>)>>, <<KV("number of poi", <<"2">>)>>}}

ReopenedMiddleBlocks == {<<>>, <<Sec("LOGIN"), KV("User", Quoted("A"))>>}

ReopenedSecondBlocks ==
    {<<>>, <<KV("number of poi", <<"2">>)>>}
        \cup {<<Sec("GLOBAL PARAMETERS"), KV("number of poi", a), KV("number of miniscans", b)>> :
                  a \in CounterTexts, b \in CounterTexts}

ReopenedFiles ==
    {first \o middle \o second :
         first \in ReopenedFirstBlocks, middle \in ReopenedMiddleBlocks,
         second \in ReopenedSecondBlocks}

InitReopened ==
    /\ file \in ReopenedFiles
    /\ hdr = NotLoaded
    /\ call = NoCall
    /\ speed = NoSpeed
    /\ epochs = NoEpochs
    /\ tin = NoTimingInput
    /\ tout = NoTimingOutput
    /\ rois = NoRois
    /\ nwb = NoNwb
    /\ sess = NoSessions

SpecReopened == InitReopened /\ [][NextHeader]_vars

\* the raw triples that came from key/value lines: those of tab rows have
\* the keys line_1, line_2, ...
IsKeyValueTriple(triple) == ~(Len(triple[2]) > 0 /\ triple[2][1] = "line_")

SameEntry(s, t) == s[1] = t[1] /\ s[2] = t[2]

\* the place in the raw record of the last triple of the section and key
LastTriple(raw, triple) ==
    CHOOSE j \in 1..Len(raw) :
        /\ SameEntry(raw[j], triple)
        /\ \A l \in (j + 1)..Len(raw) : ~SameEntry(raw[l], triple)

\* C29: after parsing any header, for every raw triple (section, key, text)
\* that came from a key/value line the parsed sections contain that section
\* and that key, with the value derived from the last such triple in file
\* order; also when a section name is opened more than once.
C29_RawAndParsedAgree ==
    hdr.status = "ok" =>
        \A i \in 1..Len(hdr.raw_fields) :
            IsKeyValueTriple(hdr.raw_fields[i]) =>
                /\ Has(hdr.sections, hdr.raw_fields[i][1])
                /\ Has(hdr.sections[hdr.raw_fields[i][1]], hdr.raw_fields[i][2])
                /\ hdr.sections[hdr.raw_fields[i][1]][hdr.raw_fields[i][2]] =
                       ConvertValue(hdr.raw_fields[LastTriple(hdr.raw_fields,
                                                              hdr.raw_fields[i])][3])

\* the lines of the file that open a section, and the key/value lines
OpensSection(i) == LineClass(file[i]) = "section"

GivesKey(i) == LineClass(file[i]) = "key/value"

\* the name a section line gives
NameOf(i) == SubSeq(strip(file[i]), 2, Len(strip(file[i])) - 1)

\* the last section line before line i, 0 for none
OpenerBefore(i) ==
    IF \E j \in 1..(i - 1) : OpensSection(j)
    THEN CHOOSE j \in 1..(i - 1) : OpensSection(j) /\ \A l \in (j + 1)..(i - 1) : ~OpensSection(l)
    ELSE 0

\* the last line that opens the section line i is in
LastOpening(i) ==
    CHOOSE j \in 1..Len(file) :
        /\ OpensSection(j)
        /\ NameOf(j) = NameOf(OpenerBefore(i))
        /\ \A l \in (j + 1)..Len(file) : ~(OpensSection(l) /\ NameOf(l) = NameOf(j))

KeyTextOf(i) == strip(split(strip(file[i]), "=")[1])

ValueTextOf(i) == strip(split(strip(file[i]), "=")[2])

\* line j gives the key of line i in the section of line i
SameKey(i, j) ==
    /\ GivesKey(j)
    /\ OpenerBefore(j) # 0
    /\ NameOf(OpenerBefore(j)) = NameOf(OpenerBefore(i))
    /\ KeyTextOf(j) = KeyTextOf(i)

\* C29, amended: every key/value line has its triple in the raw record; the
\* parsed section holds its key, with the value of the last line that gives
\* the key, when the line or a later line giving the key comes after the
\* last opening of the section, and does not hold the key otherwise.
C29_ParsedSinceLastOpening ==
    hdr.status = "ok" =>
        \A i \in 1..Len(file) :
            GivesKey(i) =>
                LET name == NameOf(OpenerBefore(i))
                    given == {j \in 1..Len(file) : SameKey(i, j)}
                    last == CHOOSE j \in given : \A l \in given : l <= j
                IN  /\ \E t \in 1..Len(hdr.raw_fields) :
                           hdr.raw_fields[t] = <<name, KeyTextOf(i), ValueTextOf(i)>>
                    /\ Has(hdr.sections, name)
                    /\ IF last > LastOpening(i)
                       THEN /\ Has(hdr.sections[name], KeyTextOf(i))
                            /\ hdr.sections[name][KeyTextOf(i)] = ConvertValue(ValueTextOf(last))
                       ELSE ~Has(hdr.sections[name], KeyTextOf(i))

\* a header was returned for a file that opens GLOBAL PARAMETERS twice and
\* gives 'frame size' in the first opening only
C29_Witness ==
    /\ hdr.status = "ok"
    /\ Cardinality({i \in 1..Len(file) : OpensSection(i) /\ NameOf(i) = <<"GLOBAL PARAMETERS">>}) = 2
    /\ \E t \in 1..Len(hdr.raw_fields) : hdr.raw_fields[t][2] = <<"frame size">>
    /\ ~Has(hdr.sections[<<"GLOBAL PARAMETERS">>], <<"frame size">>)

(***************************************************************************)
(* get_x_y_range of the readers.  SpecRanges is SpecGeometry with the call *)
(* of get_x_y_range added.                                                 *)
(***************************************************************************)
\* ClassicRoiReader.get_x_y_range, rois.py:146-149
classic_get_x_y_range(reader, roi_number) ==
    LET err == IndexError(reader, Coordinates, roi_number)
        row == reader.roi_data.rows[roi_number + 1]
        dtypes == reader.roi_data.dtypes
        x_range == Subtract(row.x_stop, row.x_start, dtypes.x_stop)
        y_range == Subtract(row.y_stop, row.y_start, dtypes.y_stop)
    IN  IF err # "" THEN [err |-> err, value |-> <<>>]
        ELSE [err |-> "", value |-> <<x_range, y_range>>]

\* RoiReaderv300.get_x_y_range, rois.py:181-185: get_lines_pixels reversed
v300_get_x_y_range(reader, roi_number) ==
    LET err == IndexError(reader, {"angle_deg"}, roi_number)
        size == get_lines_pixels(reader, roi_number)
    IN  IF err # "" THEN [err |-> err, value |-> <<>>]
        ELSE IF size.err # "" THEN [err |-> size.err, value |-> <<>>]
        ELSE [err |-> "", value |-> <<size.pixels, size.lines>>]

get_x_y_range(reader, roi_number) ==
    IF reader.class = "ClassicRoiReader" THEN classic_get_x_y_range(reader, roi_number)
    ELSE v300_get_x_y_range(reader, roi_number)

\* reader.get_x_y_range(roi_number)
GetXYRange ==
    /\ \E i \in 1..Len(rois.readers), roi_number \in 0..(MaxRoiRows - 1) :
          LET r == get_x_y_range(rois.readers[i], roi_number)
          IN  rois' = [rois EXCEPT
                         !.out = RoiOut("get_x_y_range", r.err, i, roi_number, r.value)]
    /\ UNCHANGED <<file, hdr, call, speed, epochs, tin, tout, nwb, sess>>

NextRanges == GetOneReader \/ ReadRoiTable \/ GetLinesPixels \/ GetXYRange

SpecRanges == InitGeometry /\ [][NextRanges]_vars

\* a classic reader that holds the table was asked for the range of an ROI
AskedARange ==
    /\ rois.status = "open"
    /\ rois.out.op = "get_x_y_range"
    /\ AskedReader.class = "ClassicRoiReader"
    /\ AskedReader.roi_data.status = "read"
    /\ rois.out.roi_number < Len(AskedReader.roi_data.rows)

\* C30: for every pair of 16-bit unsigned start/stop coordinates stored in
\* the ROI table (also stop < start), get_x_y_range and the extents inside
\* get_lines_pixels equal the integer difference stop - start; the
\* subtraction never wraps around modulo 2^16.
C30_ExtentsNeverWrap ==
    /\ AskedARange =>
           /\ rois.out.err = ""
           /\ rois.out.value =
                  <<AskedRow.x_stop - AskedRow.x_start, AskedRow.y_stop - AskedRow.y_start>>
    /\ (AskedAnRoi /\ AskedReader.imaging_mode # "pointing") =>
           /\ rois.out.err = ""
           /\ {rois.out.value[1], rois.out.value[2]} =
                  {AskedRow.x_stop - AskedRow.x_start, AskedRow.y_stop - AskedRow.y_start}

====
